---------------------------- MODULE Spec2Model ----------------------------
(***************************************************************************)
(* Model of the expense-tracker chat orchestrator:                         *)
(*   - the rate limiter and the POST handler of the chat route             *)
(*     (src/unnamed/part_006),                                             *)
(*   - the tool executor (src/lib/anthropic.ts, lines 39-412),             *)
(*   - ChatPanel.handleSend and the expense store's addExpense             *)
(*     (src/unnamed/part_007, src/unnamed/part_003),                       *)
(*   - the chat store and the budget store (src/store), getBudgetStatus    *)
(*     (src/unnamed/part_000) and the two tool declarations                *)
(*     (src/unnamed/part_001, src/unnamed/part_002).                       *)
(*                                                                         *)
(* Ten specifications share the variables:                                 *)
(*   Spec        one request at a time, every endpoint answer of the pool; *)
(*   SpecLive    Spec with the fairness of the handler's steps;            *)
(*   SpecConc    several requests in flight, interleaved at the awaits;    *)
(*   SpecRate    checkRateLimit alone, with the clock advancing;           *)
(*   SpecTool    executeToolCall alone, call after call on one context;    *)
(*   SpecHistory one request whose body carries a history;                 *)
(*   SpecKeys    requests with and without a session header, one window;   *)
(*   SpecAdmit   requests of one session in one window, answers counted;   *)
(*   SpecChat    the chat store alone;                                     *)
(*   SpecBudget  the budget store and the budget summaries built from it.  *)
(***************************************************************************)
EXTENDS Integers, Sequences, FiniteSets

(***************************************************************************)
(* Bounds of the model.                                                    *)
(***************************************************************************)
\* clock granularity of Tick, in ms
TickMs == 20000
\* the clock stops after MaxTicks ticks
MaxTicks == 4
\* request slots that can be in flight together under SpecConc
NumSlots == 2
\* tool calls the endpoint requests at most during one request (over all its rounds)
MaxToolCalls == 3

(***************************************************************************)
(* Program constants.                                                      *)
(***************************************************************************)
\* part_006:19  resetAt: now + 60000
WINDOW_MS == 60000
\* part_006:23  limit.count >= 10
RATE_LIMIT == 10
\* part_006:88  const maxIterations = 5
maxIterations == 5
\* part_006:62  message.length > 1000
MAX_MESSAGE_LENGTH == 1000

(***************************************************************************)
(* JavaScript values.  Every value is a record of the same shape so that   *)
(* any two can be compared: t is the typeof tag, n the number, s the       *)
(* string as a sequence of characters.                                     *)
(***************************************************************************)
Undefined == [t |-> "undefined", n |-> 0, s |-> <<>>]
Null == [t |-> "null", n |-> 0, s |-> <<>>]
Num(k) == [t |-> "number", n |-> k, s |-> <<>>]
Str(x) == [t |-> "string", n |-> 0, s |-> x]

Digit == {"0", "1", "2", "3", "4", "5", "6", "7", "8", "9"}
DigitValue(c) ==
  CASE c = "0" -> 0 [] c = "1" -> 1 [] c = "2" -> 2 [] c = "3" -> 3
    [] c = "4" -> 4 [] c = "5" -> 5 [] c = "6" -> 6 [] c = "7" -> 7
    [] c = "8" -> 8 [] c = "9" -> 9
DigitChar(d) ==
  CASE d = 0 -> "0" [] d = 1 -> "1" [] d = 2 -> "2" [] d = 3 -> "3"
    [] d = 4 -> "4" [] d = 5 -> "5" [] d = 6 -> "6" [] d = 7 -> "7"
    [] d = 8 -> "8" [] d = 9 -> "9"

\* String.prototype.trim's white space
IsSpace(c) == c \in {" ", "\t", "\n"}

RECURSIVE TrimStart(_)
TrimStart(x) ==
  IF x # <<>> /\ IsSpace(Head(x)) THEN TrimStart(Tail(x)) ELSE x

RECURSIVE TrimEnd(_)
TrimEnd(x) ==
  IF x # <<>> /\ IsSpace(x[Len(x)]) THEN TrimEnd(SubSeq(x, 1, Len(x) - 1)) ELSE x

\* String.prototype.trim
Trim(x) == TrimEnd(TrimStart(x))

RECURSIVE NatDigits(_)
NatDigits(k) ==
  IF k < 10 THEN <<DigitChar(k)>> ELSE NatDigits(k \div 10) \o <<DigitChar(k % 10)>>

\* ToString of a value (what RegExp.prototype.test applies to its argument)
JSToString(v) ==
  CASE v.t = "string" -> v.s
    [] v.t = "number" -> IF v.n < 0 THEN <<"-">> \o NatDigits(-v.n) ELSE NatDigits(v.n)
    [] v.t = "null" -> <<"n", "u", "l", "l">>
    [] OTHER -> <<"u", "n", "d", "e", "f", "i", "n", "e", "d">>

RECURSIVE DigitsValue(_)
DigitsValue(x) ==
  IF x = <<>> THEN 0 ELSE 10 * DigitsValue(SubSeq(x, 1, Len(x) - 1)) + DigitValue(x[Len(x)])

\* ToNumber of a value: nan, or the number n
ToNumber(v) ==
  CASE v.t = "number" -> [nan |-> FALSE, n |-> v.n]
    [] v.t = "null" -> [nan |-> FALSE, n |-> 0]
    [] v.t = "string" ->
         LET x == Trim(v.s) IN
         IF x = <<>> THEN [nan |-> FALSE, n |-> 0]
         ELSE IF \A i \in 1..Len(x) : x[i] \in Digit
              THEN [nan |-> FALSE, n |-> DigitsValue(x)]
         ELSE IF Head(x) = "-" /\ Len(x) > 1 /\ \A i \in 2..Len(x) : x[i] \in Digit
              THEN [nan |-> FALSE, n |-> -DigitsValue(Tail(x))]
         ELSE [nan |-> TRUE, n |-> 0]
    [] OTHER -> [nan |-> TRUE, n |-> 0]

\* a <= 0 as the relational operator evaluates it (a comparison with NaN is false)
LessOrEqualZero(v) == LET k == ToNumber(v) IN ~k.nan /\ k.n <= 0

(***************************************************************************)
(* Texts whose characters the code never inspects (the user message, the   *)
(* reply of the endpoint, the error strings) are kept as typeof and length.*)
(***************************************************************************)
Text(k) == [t |-> "string", len |-> k]
NullText == [t |-> "null", len |-> 0]
UndefinedText == [t |-> "undefined", len |-> 0]
\* a truthy value that is not a string, such as the number 5
NumberText == [t |-> "number", len |-> 0]

\* !v for such a value
Falsy(v) == v.t \in {"null", "undefined"} \/ (v.t = "string" /\ v.len = 0)

(***************************************************************************)
(* State.                                                                  *)
(***************************************************************************)
VARIABLES
  now,          \* Date.now(), ms
  rateLimiter,  \* the module-level Map: session id -> entry
  admitLog,     \* history: per session and instant, the calls checkRateLimit admitted
  lastCall,     \* history: the latest checkRateLimit call and the entry it found
  openaiClient, \* the module-level singleton of getOpenAIClient: created or not
  post,         \* per slot: the POST invocation (its locals and its position)
  panel,        \* per slot: the handleSend invocation of the chat panel
  chat,         \* the chat store: messages, isLoading, error
  expenses,     \* the expense store's list
  exec,         \* the tool executor on its own: the context object of a request,
                \* the clock's date, and the history of the calls made on it
  budgetStore,  \* the budget store's list, and the budget summary of the chat context
  served        \* history: per session, the answers delivered so far, by status

vars == <<now, rateLimiter, admitLog, lastCall, openaiClient, post, panel, chat, expenses, exec, budgetStore, served>>

Sessions == {"anonymous", "user-session"}
Times == {k * TickMs : k \in 0..MaxTicks}

(***************************************************************************)
(* Tool executor (src/lib/anthropic.ts:315-412).                           *)
(***************************************************************************)
\* input.<name> of a parsed argument object; a field that is missing is undefined
Get(input, name) == IF name \in DOMAIN input.f THEN input.f[name] ELSE Undefined

\* what a tool function does: it throws, or returns {result, isError}
Thrown == [thrown |-> TRUE, isError |-> FALSE, result |-> [none |-> TRUE]]
Returned(result, isError) == [thrown |-> FALSE, isError |-> isError, result |-> result]

\* mutant: the pattern is not anchored to four, two and two digits
dateRegexLoose(x) ==
  /\ Len(x) >= 5
  /\ \E i, j \in 2..(Len(x) - 1) :
       /\ i < j
       /\ x[i] = "-"
       /\ x[j] = "-"
       /\ \A k \in (1..Len(x)) \ {i, j} : x[k] \in Digit

\* /^\d{4}-\d{2}-\d{2}$/.test(x)
dateRegex(x) ==
  /\ Len(x) = 10
  /\ \A i \in {1, 2, 3, 4, 6, 7, 9, 10} : x[i] \in Digit
  /\ x[5] = "-"
  /\ x[8] = "-"

\* context.categories.find((c) => c.id === id): the index of the first match, 0 if none
FindCategory(categories, id) ==
  LET hits == {i \in 1..Len(categories) : categories[i].id = id} IN
  IF hits = {} THEN 0 ELSE CHOOSE i \in hits : \A k \in hits : i <= k

\* mutant: the amount is not validated
executeCreateExpenseAnyAmount(input, context) ==
  IF input.kind # "object" THEN Thrown
  ELSE IF Get(input, "description").t # "string" THEN Thrown
  ELSE IF Trim(Get(input, "description").s) = <<>>
  THEN Returned([error |-> <<"La description est requise">>], TRUE)
  ELSE LET category == FindCategory(context.categories, Get(input, "categoryId")) IN
  IF category = 0
  THEN Returned([error |-> <<"Categorie non trouvee: ">>
                            \o JSToString(Get(input, "categoryId"))], TRUE)
  ELSE IF ~dateRegex(JSToString(Get(input, "date")))
  THEN Returned([error |-> <<"Format de date invalide. Utilisez YYYY-MM-DD">>], TRUE)
  ELSE Returned([success |-> TRUE,
                 expense |-> [amount |-> Get(input, "amount"),
                              description |-> Str(Trim(Get(input, "description").s)),
                              categoryId |-> Get(input, "categoryId"),
                              categoryName |-> context.categories[category].name,
                              date |-> Get(input, "date")]], FALSE)

executeCreateExpense(input, context) ==
  IF input.kind # "object" THEN Thrown
  ELSE IF LessOrEqualZero(Get(input, "amount"))
  THEN Returned([error |-> <<"Le montant doit etre positif">>], TRUE)
  ELSE IF Get(input, "description").t # "string" THEN Thrown
  ELSE IF Trim(Get(input, "description").s) = <<>>
  THEN Returned([error |-> <<"La description est requise">>], TRUE)
  ELSE LET category == FindCategory(context.categories, Get(input, "categoryId")) IN
  IF category = 0
  THEN Returned([error |-> <<"Categorie non trouvee: ">>
                            \o JSToString(Get(input, "categoryId"))], TRUE)
  ELSE IF ~dateRegex(JSToString(Get(input, "date")))
  THEN Returned([error |-> <<"Format de date invalide. Utilisez YYYY-MM-DD">>], TRUE)
  ELSE Returned([success |-> TRUE,
                 expense |-> [amount |-> Get(input, "amount"),
                              description |-> Str(Trim(Get(input, "description").s)),
                              categoryId |-> Get(input, "categoryId"),
                              categoryName |-> context.categories[category].name,
                              date |-> Get(input, "date")]], FALSE)

(***************************************************************************)
(* The read-only tools (src/lib/anthropic.ts:63-310).  An expense of the   *)
(* context is [id, amount, description, categoryId, categoryName, date]:   *)
(* amount is a number of cents, so that sums are exact as they are for     *)
(* amounts of two decimals; date is the string YYYY-MM-DD by its numbers   *)
(* [y, m, d].  A Date object is [y, m, d, e], e = 1 at 23:59:59.999 of the *)
(* day and 0 at its midnight.                                              *)
(***************************************************************************)
\* !!v
Truthy(v) ==
  ~ \/ v.t \in {"undefined", "null"}
    \/ (v.t = "number" /\ v.n = 0)
    \/ (v.t = "string" /\ v.s = <<>>)

IsLeap(y) == (y % 4 = 0 /\ y % 100 # 0) \/ y % 400 = 0
DaysInMonth(y, m) ==
  CASE m = 2 -> IF IsLeap(y) THEN 29 ELSE 28
    [] m \in {4, 6, 9, 11} -> 30
    [] OTHER -> 31

RECURSIVE DaysBeforeYear(_)
DaysBeforeYear(y) ==
  IF y <= 2023 THEN 0
  ELSE DaysBeforeYear(y - 1) + (IF IsLeap(y - 1) THEN 366 ELSE 365)

RECURSIVE DaysBeforeMonth(_, _)
DaysBeforeMonth(y, m) ==
  IF m <= 1 THEN 0 ELSE DaysBeforeMonth(y, m - 1) + DaysInMonth(y, m - 1)

\* the days from 2023-01-01, a Sunday, to the day of the date
DayNumber(date) == DaysBeforeYear(date.y) + DaysBeforeMonth(date.y, date.m) + date.d - 1

\* Date.prototype.getTime, in half days
getTime(date) == 2 * DayNumber(date) + date.e

\* Date.prototype.getDay: 0 is Sunday
getDay(date) == DayNumber(date) % 7

\* parseISO of a date-only string: the local midnight of the day
parseISO(x) == [y |-> x.y, m |-> x.m, d |-> x.d, e |-> 0]

startOfDay(date) == [date EXCEPT !.e = 0]
endOfDay(date) == [date EXCEPT !.e = 1]
startOfMonth(date) == [date EXCEPT !.d = 1, !.e = 0]
endOfMonth(date) == [date EXCEPT !.d = DaysInMonth(date.y, date.m), !.e = 1]

\* the day before and the day after
PrevDay(date) ==
  IF date.d > 1 THEN [date EXCEPT !.d = @ - 1]
  ELSE IF date.m > 1 THEN [date EXCEPT !.m = @ - 1, !.d = DaysInMonth(date.y, date.m - 1)]
  ELSE [date EXCEPT !.y = @ - 1, !.m = 12, !.d = 31]
NextDay(date) ==
  IF date.d < DaysInMonth(date.y, date.m) THEN [date EXCEPT !.d = @ + 1]
  ELSE IF date.m < 12 THEN [date EXCEPT !.m = @ + 1, !.d = 1]
  ELSE [date EXCEPT !.y = @ + 1, !.m = 1, !.d = 1]

\* addDays(date, k)
RECURSIVE addDays(_, _)
addDays(date, k) ==
  IF k = 0 THEN date
  ELSE IF k > 0 THEN addDays(NextDay(date), k - 1)
  ELSE addDays(PrevDay(date), k + 1)

\* mutant: the week starts on Sunday whatever the option says
startOfWeekSunday(date, weekStartsOn) ==
  startOfDay(addDays(date, -getDay(date)))

\* startOfWeek / endOfWeek with the option weekStartsOn
startOfWeek(date, weekStartsOn) ==
  LET day == getDay(date)
      diff == (IF day < weekStartsOn THEN 7 ELSE 0) + day - weekStartsOn
  IN startOfDay(addDays(date, -diff))
endOfWeek(date, weekStartsOn) ==
  LET day == getDay(date)
      diff == (IF day < weekStartsOn THEN -7 ELSE 0) + 6 - (day - weekStartsOn)
  IN endOfDay(addDays(date, diff))

\* subMonths(date, 1): the same day of the previous month, or its last day
subMonths1(date) ==
  LET y == IF date.m = 1 THEN date.y - 1 ELSE date.y
      m == IF date.m = 1 THEN 12 ELSE date.m - 1
      last == DaysInMonth(y, m)
  IN [date EXCEPT !.y = y, !.m = m, !.d = IF date.d > last THEN last ELSE date.d]

\* getDateRange (lines 63-85): null is [all |-> TRUE]
NoRange == [all |-> TRUE, start |-> parseISO([y |-> 2023, m |-> 1, d |-> 1]),
            end |-> parseISO([y |-> 2023, m |-> 1, d |-> 1])]
Range(start, end) == [all |-> FALSE, start |-> start, end |-> end]
getDateRange(period, today) ==
  CASE period = Str(<<"today">>) -> Range(startOfDay(today), endOfDay(today))
    [] period = Str(<<"this_week">>) -> Range(startOfWeek(today, 1), endOfWeek(today, 1))
    [] period = Str(<<"this_month">>) -> Range(startOfMonth(today), endOfMonth(today))
    [] period = Str(<<"last_month">>) ->
         Range(startOfMonth(subMonths1(today)), endOfMonth(subMonths1(today)))
    [] OTHER -> NoRange

\* isWithinInterval(date, {start, end})
isWithinInterval(date, start, end) ==
  getTime(start) <= getTime(date) /\ getTime(date) <= getTime(end)

\* filterByDateRange (lines 90-100); with no range it returns the array it was given
filterByDateRange(found, range) ==
  IF range.all THEN found
  ELSE SelectSeq(found,
                 LAMBDA e : isWithinInterval(parseISO(e.date), range.start, range.end))

\* e.amount summed with reduce, from 0
RECURSIVE SumAmounts(_)
SumAmounts(found) ==
  IF found = <<>> THEN 0 ELSE Head(found).amount.n + SumAmounts(Tail(found))

\* Number.prototype.toFixed(2) of an amount given in cents
toFixed2(cents) ==
  LET a == IF cents < 0 THEN -cents ELSE cents IN
  (IF cents < 0 THEN <<"-">> ELSE <<>>)
    \o NatDigits(a \div 100) \o <<".", DigitChar((a % 100) \div 10), DigitChar(a % 10)>>

\* String.prototype.toLowerCase, on the letters the model's texts use
LowerOf(c) ==
  CASE c = "A" -> "a" [] c = "B" -> "b" [] c = "C" -> "c" [] c = "E" -> "e"
    [] c = "F" -> "f" [] c = "S" -> "s" [] c = "U" -> "u" [] OTHER -> c
toLowerCase(x) == [i \in 1..Len(x) |-> LowerOf(x[i])]

\* String.prototype.includes
includes(x, part) ==
  \E i \in 0..(Len(x) - Len(part)) : SubSeq(x, i + 1, i + Len(part)) = part

\* Array.prototype.slice(0, end)
slice0(x, end) ==
  LET k == IF end < 0 THEN Len(x) + end ELSE end IN
  IF k <= 0 THEN <<>> ELSE IF k >= Len(x) THEN x ELSE SubSeq(x, 1, k)

\* input.limit || dflt, as the end index slice converts it to
LimitOr(input, dflt) ==
  LET limit == Get(input, "limit") IN
  IF ~Truthy(limit) THEN dflt
  ELSE IF ToNumber(limit).nan THEN 0 ELSE ToNumber(limit).n

\* Array.prototype.sort((a, b) => b.amount - a.amount): stable, largest amount first
\* mutant: an expense goes before the expenses of the same amount
RECURSIVE InsertByAmountBeforeEqual(_, _)
InsertByAmountBeforeEqual(sorted, e) ==
  IF sorted = <<>> THEN <<e>>
  ELSE IF Head(sorted).amount.n > e.amount.n
       THEN <<Head(sorted)>> \o InsertByAmountBeforeEqual(Tail(sorted), e)
       ELSE <<e>> \o sorted

RECURSIVE InsertByAmount(_, _)
InsertByAmount(sorted, e) ==
  IF sorted = <<>> THEN <<e>>
  ELSE IF Head(sorted).amount.n >= e.amount.n
       THEN <<Head(sorted)>> \o InsertByAmount(Tail(sorted), e)
       ELSE <<e>> \o sorted
RECURSIVE SortByAmount(_)
SortByAmount(x) ==
  IF x = <<>> THEN <<>>
  ELSE InsertByAmount(SortByAmount(SubSeq(x, 1, Len(x) - 1)), x[Len(x)])

\* context.categories.find((c) => c.id === id)?.name
CategoryNameOf(context, id) ==
  LET category == FindCategory(context.categories, id) IN
  IF category = 0 THEN Undefined ELSE context.categories[category].name

\* the projection of an expense that search_expenses and get_top_expenses return
ExpenseRow(e) ==
  [date |-> e.date, description |-> e.description,
   amount |-> Str(toFixed2(e.amount.n)), category |-> e.categoryName]

\* executeGetSpendingSummary (lines 105-133)
executeGetSpendingSummary(input, context) ==
  IF input.kind # "object" THEN Thrown
  ELSE LET today == parseISO(context.today)
           range == getDateRange(Get(input, "period"), today)
           inRange == filterByDateRange(context.expenses, range)
           categoryId == Get(input, "categoryId")
           found == IF Truthy(categoryId)
                       THEN SelectSeq(inRange, LAMBDA e : e.categoryId = categoryId)
                       ELSE inRange
           categoryName == IF Truthy(categoryId) THEN CategoryNameOf(context, categoryId)
                           ELSE Null
       IN Returned([period |-> Get(input, "period"),
                    category |-> IF Truthy(categoryName) THEN categoryName
                                 ELSE Str(<<"Toutes categories">>),
                    total |-> Str(toFixed2(SumAmounts(found))),
                    currency |-> context.settings.currency,
                    transactionCount |-> Num(Len(found))], FALSE)

\* a find that looks for the total budget whatever the id
FindBudgetTotal(budgets, id) ==
  LET hits == {i \in 1..Len(budgets) : budgets[i].categoryId = Null} IN
  IF hits = {} THEN 0 ELSE CHOOSE i \in hits : \A k \in hits : i <= k

\* context.budgets.find((b) => b.categoryId === id): the index of the first match, 0 if none
FindBudget(budgets, id) ==
  LET hits == {i \in 1..Len(budgets) : budgets[i].categoryId = id} IN
  IF hits = {} THEN 0 ELSE CHOOSE i \in hits : \A k \in hits : i <= k

\* executeGetBudgetStatus (lines 138-183); date is what new Date() gives
executeGetBudgetStatus(input, context, date) ==
  IF input.kind # "object" THEN Thrown
  ELSE LET categoryId == Get(input, "categoryId")
           budget == FindBudget(context.budgets,
                                IF Truthy(categoryId) THEN categoryId ELSE Null)
       IN IF budget = 0
          THEN LET categoryName == IF Truthy(categoryId)
                                   THEN CategoryNameOf(context, categoryId)
                                   ELSE Str(<<"Total">>)
               IN Returned([message |-> <<"Aucun budget configure pour ">>
                                          \o JSToString(categoryName),
                            hasBudget |-> FALSE], FALSE)
          ELSE LET b == context.budgets[budget]
                   daysRemaining == DaysInMonth(date.y, date.m) - date.d
               IN Returned([category |-> IF Truthy(b.categoryName) THEN b.categoryName
                                         ELSE Str(<<"Total">>),
                            budgetAmount |-> b.amount,
                            spent |-> Str(toFixed2(b.spent.n)),
                            remaining |-> Str(toFixed2(b.amount.n - b.spent.n)),
                            percentage |-> b.percentage,
                            status |-> b.status,
                            period |-> b.period,
                            daysRemaining |-> IF b.period = Str(<<"monthly">>)
                                              THEN Num(daysRemaining) ELSE Undefined,
                            currency |-> context.settings.currency,
                            hasBudget |-> TRUE], FALSE)

\* executeSearchExpenses (lines 188-229)
executeSearchExpenses(input, context) ==
  IF input.kind # "object" THEN Thrown
  ELSE LET query == Get(input, "query")
           categoryId == Get(input, "categoryId")
           minAmount == Get(input, "minAmount")
           maxAmount == Get(input, "maxAmount")
       IN IF Truthy(query) /\ query.t # "string" THEN Thrown
          ELSE LET e1 == IF Truthy(query)
                         THEN SelectSeq(context.expenses,
                                LAMBDA e : includes(toLowerCase(e.description.s),
                                                    toLowerCase(query.s)))
                         ELSE context.expenses
                   e2 == IF Truthy(categoryId)
                         THEN SelectSeq(e1, LAMBDA e : e.categoryId = categoryId)
                         ELSE e1
                   e3 == IF minAmount # Undefined
                         THEN SelectSeq(e2, LAMBDA e : /\ ~ToNumber(minAmount).nan
                                                       /\ e.amount.n >= ToNumber(minAmount).n)
                         ELSE e2
                   e4 == IF maxAmount # Undefined
                         THEN SelectSeq(e3, LAMBDA e : /\ ~ToNumber(maxAmount).nan
                                                       /\ e.amount.n <= ToNumber(maxAmount).n)
                         ELSE e3
                   found == slice0(e4, LimitOr(input, 10))
               IN Returned([expenses |-> [i \in 1..Len(found) |-> ExpenseRow(found[i])],
                            count |-> Num(Len(found)),
                            currency |-> context.settings.currency], FALSE)

\* executeGetTopExpenses (lines 234-261): what it returns
executeGetTopExpenses(input, context) ==
  IF input.kind # "object" THEN Thrown
  ELSE LET today == parseISO(context.today)
           range == getDateRange(Get(input, "period"), today)
           sorted == SortByAmount(filterByDateRange(context.expenses, range))
           found == slice0(sorted, LimitOr(input, 5))
       IN Returned([period |-> Get(input, "period"),
                    expenses |-> [i \in 1..Len(found) |-> ExpenseRow(found[i])],
                    currency |-> context.settings.currency], FALSE)

\* executeGetTopExpenses: the array it sorts.  Array.prototype.sort sorts in
\* place, and with no range filterByDateRange has returned context.expenses itself
ExpensesAfterGetTopExpenses(input, context) ==
  IF input.kind # "object" THEN context.expenses
  ELSE IF getDateRange(Get(input, "period"), parseISO(context.today)).all
       THEN SortByAmount(context.expenses)
       ELSE context.expenses

\* the breakdown Map of lines 274-288, in insertion order
RECURSIVE Breakdown(_, _)
Breakdown(acc, found) ==
  IF found = <<>> THEN acc
  ELSE LET e == Head(found)
           hits == {i \in 1..Len(acc) : acc[i].id = e.categoryId}
       IN Breakdown(IF hits = {}
                    THEN Append(acc, [id |-> e.categoryId, name |-> e.categoryName,
                                      total |-> e.amount.n, count |-> 1])
                    ELSE [i \in 1..Len(acc) |->
                            IF i \in hits
                            THEN [acc[i] EXCEPT !.total = @ + e.amount.n, !.count = @ + 1]
                            ELSE acc[i]],
                    Tail(found))

\* Math.round(part / total * 100)
RoundPercent(part, total) == (200 * part + total) \div (2 * total)

\* .sort((a, b) => parseFloat(b.total) - parseFloat(a.total)): stable, largest first
\* mutant: a category goes before the categories of the same total
RECURSIVE InsertByTotalBeforeEqual(_, _)
InsertByTotalBeforeEqual(sorted, b) ==
  IF sorted = <<>> THEN <<b>>
  ELSE IF Head(sorted).total > b.total
       THEN <<Head(sorted)>> \o InsertByTotalBeforeEqual(Tail(sorted), b)
       ELSE <<b>> \o sorted

RECURSIVE InsertByTotal(_, _)
InsertByTotal(sorted, b) ==
  IF sorted = <<>> THEN <<b>>
  ELSE IF Head(sorted).total >= b.total
       THEN <<Head(sorted)>> \o InsertByTotal(Tail(sorted), b)
       ELSE <<b>> \o sorted
RECURSIVE SortByTotal(_)
SortByTotal(x) ==
  IF x = <<>> THEN <<>>
  ELSE InsertByTotal(SortByTotal(SubSeq(x, 1, Len(x) - 1)), x[Len(x)])

\* executeGetCategoryBreakdown (lines 266-310)
executeGetCategoryBreakdown(input, context) ==
  IF input.kind # "object" THEN Thrown
  ELSE LET today == parseISO(context.today)
           range == getDateRange(Get(input, "period"), today)
           found == filterByDateRange(context.expenses, range)
           total == SumAmounts(found)
           sorted == SortByTotal(Breakdown(<<>>, found))
       IN Returned([period |-> Get(input, "period"),
                    total |-> Str(toFixed2(total)),
                    categories |->
                      [i \in 1..Len(sorted) |->
                         [name |-> sorted[i].name,
                          total |-> Str(toFixed2(sorted[i].total)),
                          count |-> Num(sorted[i].count),
                          percentage |-> Num(IF total > 0
                                             THEN RoundPercent(sorted[i].total, total)
                                             ELSE 0)]],
                    currency |-> context.settings.currency], FALSE)
\* new Date(), by its day
newDate == exec.clock

\* one tool declaration, as far as name, properties, required fields and the
\* enumeration of period go; enum is <<>> for a tool without period
Tool(name, properties, required, enum) ==
  [name |-> name, properties |-> properties, required |-> required, enum |-> enum]

\* chatTools of the OpenAI format (part_001:6-153), which the route sends
chatTools ==
  <<Tool("get_spending_summary", <<"period", "categoryId">>, <<"period">>,
         <<"today", "this_week", "this_month", "last_month", "all_time">>),
    Tool("get_budget_status", <<"categoryId">>, <<>>, <<>>),
    Tool("search_expenses", <<"query", "categoryId", "minAmount", "maxAmount", "limit">>,
         <<>>, <<>>),
    Tool("get_top_expenses", <<"period", "limit">>, <<"period">>,
         <<"this_week", "this_month", "last_month", "all_time">>),
    Tool("get_category_breakdown", <<"period">>, <<"period">>,
         <<"this_week", "this_month", "last_month", "all_time">>),
    Tool("create_expense", <<"amount", "description", "categoryId", "date">>,
         <<"amount", "description", "categoryId", "date">>, <<>>)>>

\* chatTools of the Anthropic format (part_002:6-136)
anthropicChatTools ==
  <<Tool("get_spending_summary", <<"period", "categoryId">>, <<"period">>,
         <<"today", "this_week", "this_month", "last_month", "all_time">>),
    Tool("get_budget_status", <<"categoryId">>, <<>>, <<>>),
    Tool("search_expenses", <<"query", "categoryId", "minAmount", "maxAmount", "limit">>,
         <<>>, <<>>),
    Tool("get_top_expenses", <<"period", "limit">>, <<"period">>,
         <<"this_week", "this_month", "last_month", "all_time">>),
    Tool("get_category_breakdown", <<"period">>, <<"period">>,
         <<"this_week", "this_month", "last_month", "all_time">>),
    Tool("create_expense", <<"amount", "description", "categoryId", "date">>,
         <<"amount", "description", "categoryId", "date">>, <<>>)>>

\* an executeToolCall whose default case throws
executeToolCallThrows(toolName, toolInput, context) ==
  CASE toolName = "get_spending_summary" -> executeGetSpendingSummary(toolInput, context)
    [] toolName = "get_budget_status" -> executeGetBudgetStatus(toolInput, context, newDate)
    [] toolName = "search_expenses" -> executeSearchExpenses(toolInput, context)
    [] toolName = "get_top_expenses" -> executeGetTopExpenses(toolInput, context)
    [] toolName = "get_category_breakdown" -> executeGetCategoryBreakdown(toolInput, context)
    [] toolName = "create_expense" -> executeCreateExpense(toolInput, context)
    [] OTHER -> Thrown

\* executeToolCall (lines 370-412): what it returns
executeToolCall(toolName, toolInput, context) ==
  CASE toolName = "get_spending_summary" -> executeGetSpendingSummary(toolInput, context)
    [] toolName = "get_budget_status" -> executeGetBudgetStatus(toolInput, context, newDate)
    [] toolName = "search_expenses" -> executeSearchExpenses(toolInput, context)
    [] toolName = "get_top_expenses" -> executeGetTopExpenses(toolInput, context)
    [] toolName = "get_category_breakdown" -> executeGetCategoryBreakdown(toolInput, context)
    [] toolName = "create_expense" -> executeCreateExpense(toolInput, context)
    [] OTHER -> Returned([error |-> <<"Outil inconnu: ", toolName>>], TRUE)

\* mutant: create_expense writes the expense it has validated into the context
contextAfterToolCallWrites(toolName, toolInput, context) ==
  IF toolName = "get_top_expenses"
  THEN [context EXCEPT !.expenses = ExpensesAfterGetTopExpenses(toolInput, context)]
  ELSE IF toolName = "create_expense" /\ ~executeCreateExpense(toolInput, context).isError
  THEN [context EXCEPT !.expenses =
          Append(@, [id |-> 0, amount |-> Get(toolInput, "amount"),
                     description |-> Get(toolInput, "description"),
                     categoryId |-> Get(toolInput, "categoryId"),
                     categoryName |-> CategoryNameOf(context, Get(toolInput, "categoryId")),
                     date |-> [y |-> 2024, m |-> 1, d |-> 1]])]
  ELSE context

\* executeToolCall: the context object after the call
contextAfterToolCall(toolName, toolInput, context) ==
  IF toolName = "get_top_expenses"
  THEN [context EXCEPT !.expenses = ExpensesAfterGetTopExpenses(toolInput, context)]
  ELSE context

\* JSON.parse of an argument payload: a SyntaxError, or the value the text denotes
JSONparse(raw) ==
  IF raw.wellFormed THEN [thrown |-> FALSE, value |-> raw.value]
  ELSE [thrown |-> TRUE, value |-> [kind |-> "null", f |-> [none |-> Undefined]]]

\* JSON.stringify of an object: a property whose value is undefined is left out
DropUndefined(obj) ==
  [k \in {x \in DOMAIN obj : obj[x] # Undefined} |-> obj[k]]

\* JSON.stringify(result) of a tool result
JSONstringify(result) ==
  IF "expense" \in DOMAIN result
  THEN [result EXCEPT !.expense = DropUndefined(@)]
  ELSE IF "daysRemaining" \in DOMAIN result /\ result.daysRemaining = Undefined
  THEN [k \in DOMAIN result \ {"daysRemaining"} |-> result[k]]
  ELSE result

(***************************************************************************)
(* Rate limiter (part_006:12-29).                                          *)
(***************************************************************************)
\* rateLimiter.get(sessionId) === undefined
NoEntry == [present |-> FALSE, count |-> 0, resetAt |-> 0]

\* mutant: the window already counts as over at the instant resetAt
WindowOverAtReset(limit, t) == ~limit.present \/ limit.resetAt <= t

\* the condition of line 18: a new window is opened
WindowOver(limit, t) == ~limit.present \/ limit.resetAt < t

\* mutant: the comparison with the limit is off by one
checkRateLimitOffByOne(limit, t) ==
  IF WindowOver(limit, t) THEN TRUE
  ELSE IF limit.count > RATE_LIMIT THEN FALSE
  ELSE TRUE

\* the value checkRateLimit returns
checkRateLimit(limit, t) ==
  IF WindowOver(limit, t) THEN TRUE
  ELSE IF limit.count >= RATE_LIMIT THEN FALSE
  ELSE TRUE

\* mutant: the increment is written from a count read before another request's
\* increment, so every second increment of a window is lost
EntryAfterLostUpdate(limit, t) ==
  IF WindowOver(limit, t) THEN [present |-> TRUE, count |-> 1, resetAt |-> t + WINDOW_MS]
  ELSE IF limit.count >= RATE_LIMIT THEN limit
  ELSE IF limit.count % 2 = 0 THEN limit
  ELSE [limit EXCEPT !.count = @ + 1]

\* the entry of the session after the call
EntryAfter(limit, t) ==
  IF WindowOver(limit, t) THEN [present |-> TRUE, count |-> 1, resetAt |-> t + WINDOW_MS]
  ELSE IF limit.count >= RATE_LIMIT THEN limit
  ELSE [limit EXCEPT !.count = @ + 1]

\* one call checkRateLimit(s): the map, and the histories of the calls
CallCheckRateLimit(s) ==
  LET limit == rateLimiter[s] IN
  /\ rateLimiter' = [rateLimiter EXCEPT ![s] = EntryAfter(limit, now)]
  /\ admitLog' = IF checkRateLimit(limit, now)
                 THEN [admitLog EXCEPT ![s][now] = @ + 1]
                 ELSE admitLog
  /\ lastCall' = [session |-> s, at |-> now, found |-> limit,
                  admitted |-> checkRateLimit(limit, now)]

\* time passes
Tick ==
  /\ now + TickMs <= MaxTicks * TickMs
  /\ now' = now + TickMs
  /\ UNCHANGED <<rateLimiter, admitLog, lastCall, openaiClient, post, panel, chat, expenses, exec, budgetStore, served>>

\* a call of checkRateLimit on its own
Admit(s) ==
  /\ CallCheckRateLimit(s)
  /\ UNCHANGED <<now, openaiClient, post, panel, chat, expenses, exec, budgetStore, served>>

Slots == 1..NumSlots

(***************************************************************************)
(* The chat route's POST handler (part_006:48-187).                        *)
(***************************************************************************)
\* let createdExpense = undefined
NoExpense == [none |-> TRUE]
NoReply == [none |-> TRUE]

\* the x-session-id header: absent, empty, or a session id
NoHeader == "<absent>"
Headers == {NoHeader, "", "user-session"}

\* every request is counted under the one key anonymous
SessionOfAnonymous(header) == "anonymous"

\* request.headers.get('x-session-id') || 'anonymous'
SessionOf(header) == IF header \in {NoHeader, ""} THEN "anonymous" ELSE header

\* mutant: the length of the message is not checked
InvalidMessageAnyLength(message) == Falsy(message) \/ message.t # "string"

\* the condition of line 62
InvalidMessage(message) ==
  Falsy(message) \/ message.t # "string" \/ message.len > MAX_MESSAGE_LENGTH

\* formatHistory (part_006:34-42): .filter(!isLoading).slice(-10).map({role, content})
NotLoading(history) == SelectSeq(history, LAMBDA m : ~m.isLoading)
\* a slice that keeps the first ten
First10(x) == IF Len(x) <= 10 THEN x ELSE SubSeq(x, 1, 10)
\* .slice(-10)
Last10(x) == IF Len(x) <= 10 THEN x ELSE SubSeq(x, Len(x) - 9, Len(x))
formatHistory(history) ==
  LET kept == Last10(NotLoading(history)) IN
  [i \in 1..Len(kept) |-> [role |-> kept[i].role, content |-> kept[i].content]]

\* the message sequence of lines 71-75
FirstMessages(body) ==
  <<[role |-> "system", prompt |-> body.context]>>
    \o formatHistory(body.history)
    \o <<[role |-> "user", content |-> body.message]>>

\* a context without data
EmptyContext ==
  [expenses |-> <<>>, categories |-> <<>>, budgets |-> <<>>,
   settings |-> [currency |-> Str(<<"EUR">>)], today |-> [y |-> 2024, m |-> 3, d |-> 1]]

IdleBody == [parses |-> FALSE, message |-> UndefinedText,
             context |-> EmptyContext, history |-> <<>>]

\* `response` before the first completion call has returned
NoResponse ==
  [choice |-> FALSE, finish_reason |-> "", content |-> UndefinedText,
   has_tool_calls |-> FALSE, tool_calls |-> <<>>]

\* body is the request as it was sent; context is the object request.json()
\* built from it, which every tool call of the request is given; response is
\* the answer of the latest completion call that returned; calls counts the
\* completion calls issued, and failedAt is the number of the one that failed
\* built from it, which every tool call of the request is given
IdlePost ==
  [pc |-> "idle", header |-> NoHeader, body |-> IdleBody, context |-> EmptyContext,
   sessionId |-> "",
   admitted |-> FALSE, messages |-> <<>>, iterations |-> 0,
   createdExpense |-> NoExpense, calls |-> 0, response |-> NoResponse, failedAt |-> 0,
   status |-> 0, reply |-> NoReply]

\* the request has reached the handler, which has not run yet
ArrivedPost(header, body) == [IdlePost EXCEPT !.pc = "arrived", !.header = header, !.body = body]

\* NextResponse.json({error}, {status})
ErrorResponse(p, status, text) ==
  [p EXCEPT !.pc = "done", !.status = status, !.reply = [error |-> Text(text)]]

\* mutant: the error answer carries the proposal captured before the failure
CatchReturnsProposal(p, class) ==
  LET q == IF class = "API key" THEN ErrorResponse(p, 500, 56)
           ELSE IF class = "rate" THEN ErrorResponse(p, 429, 53)
           ELSE ErrorResponse(p, 500, 44)
  IN IF p.createdExpense = NoExpense THEN q
     ELSE [q EXCEPT !.reply = [error |-> q.reply.error,
                               createdExpense |-> DropUndefined(p.createdExpense)]]

\* the catch block (lines 164-186): the class of error.message decides the answer
Catch(p, class) ==
  IF class = "API key" THEN ErrorResponse(p, 500, 56)
  ELSE IF class = "rate" THEN ErrorResponse(p, 429, 53)
  ELSE ErrorResponse(p, 500, 44)

\* mutant: a request that has used up its iterations is answered with an error
OkResponseCeilingIsError(p, content) ==
  LET responseText == IF Falsy(content) THEN Text(0) ELSE content IN
  IF p.iterations >= maxIterations /\ p.response.finish_reason = "tool_calls"
  THEN [p EXCEPT !.pc = "done", !.status = 500, !.reply = [error |-> Text(44)]]
  ELSE [p EXCEPT !.pc = "done", !.status = 200,
                 !.reply = IF p.createdExpense = NoExpense
                           THEN [response |-> responseText]
                           ELSE [response |-> responseText,
                                 createdExpense |-> DropUndefined(p.createdExpense)]]

\* lines 156-163: the 200 answer; JSON leaves out createdExpense when it is undefined
OkResponse(p, content) ==
  LET responseText == IF Falsy(content) THEN Text(0) ELSE content IN
  [p EXCEPT !.pc = "done", !.status = 200,
            !.reply = IF p.createdExpense = NoExpense
                      THEN [response |-> responseText]
                      ELSE [response |-> responseText,
                            createdExpense |-> DropUndefined(p.createdExpense)]]

\* mutant: the first proposal is kept, later ones are dropped
CaptureFirst(createdExpense, name, ex) ==
  IF name = "create_expense" /\ ~ex.isError /\ "success" \in DOMAIN ex.result
     /\ createdExpense = NoExpense
  THEN ex.result.expense
  ELSE createdExpense

\* lines 119-137: the proposal kept after one tool call
Capture(createdExpense, name, ex) ==
  IF name = "create_expense" /\ ~ex.isError /\ "success" \in DOMAIN ex.result
  THEN ex.result.expense
  ELSE createdExpense

\* lines 109-143: one pass of the for loop; acc is the handler with thrown added
ExecuteOne(acc, toolCall) ==
  IF toolCall.type # "function" THEN acc
  ELSE LET parsed == JSONparse(toolCall.arguments) IN
  IF parsed.thrown THEN [acc EXCEPT !.thrown = TRUE]
  ELSE LET ex == executeToolCall(toolCall.name, parsed.value, acc.p.context) IN
  IF ex.thrown THEN [acc EXCEPT !.thrown = TRUE]
  ELSE [acc EXCEPT
          !.p.context = contextAfterToolCall(toolCall.name, parsed.value, @),
          !.p.createdExpense = Capture(@, toolCall.name, ex),
          !.p.messages = Append(@, [role |-> "tool", tool_call_id |-> toolCall.id,
                                    content |-> JSONstringify(ex.result)])]

\* lines 108-144: the for loop, which an exception leaves
RECURSIVE ExecuteAll(_, _, _)
ExecuteAll(acc, toolCalls, i) ==
  IF acc.thrown \/ i > Len(toolCalls) THEN acc
  ELSE ExecuteAll(ExecuteOne(acc, toolCalls[i]), toolCalls, i + 1)

\* mutant: the ceiling is compared with <=
LoopContinuesOffByOne(p, response) ==
  /\ response.choice
  /\ response.finish_reason = "tool_calls"
  /\ p.iterations <= maxIterations

\* lines 91-94: the condition of the while loop
LoopContinues(p, response) ==
  /\ response.choice
  /\ response.finish_reason = "tool_calls"
  /\ p.iterations < maxIterations

\* mutant: after the loop the handler waits on and returns nothing
AfterCompletionNeverReturns(p, response) ==
  IF ~LoopContinues(p, response)
  THEN [p EXCEPT !.pc = "waiting", !.response = response]
  ELSE LET p1 == [p EXCEPT !.iterations = @ + 1, !.response = response] IN
  IF ~response.has_tool_calls THEN [p1 EXCEPT !.pc = "waiting"]
  ELSE LET p2 == [p1 EXCEPT !.messages =
                     Append(@, [role |-> "assistant", content |-> response.content,
                                tool_calls |-> response.tool_calls])]
           acc == ExecuteAll([thrown |-> FALSE, p |-> p2], response.tool_calls, 1)
       IN IF acc.thrown THEN Catch(acc.p, "other")
          ELSE [acc.p EXCEPT !.calls = @ + 1]

\* lines 91-163 from the point where a completion call has returned `response`
\* to the next await or to the return
AfterCompletion(p, response) ==
  IF ~LoopContinues(p, response)
  THEN OkResponse([p EXCEPT !.response = response],
                  IF response.choice THEN response.content ELSE UndefinedText)
  ELSE LET p1 == [p EXCEPT !.iterations = @ + 1, !.response = response] IN
  IF ~response.has_tool_calls THEN OkResponse(p1, response.content)
  ELSE LET p2 == [p1 EXCEPT !.messages =
                     Append(@, [role |-> "assistant", content |-> response.content,
                                tool_calls |-> response.tool_calls])]
           acc == ExecuteAll([thrown |-> FALSE, p |-> p2], response.tool_calls, 1)
       IN IF acc.thrown THEN Catch(acc.p, "other")
          ELSE [acc.p EXCEPT !.calls = @ + 1]

\* POST up to the await of request.json() (lines 50-59)
PostStart(r) ==
  /\ post[r].pc = "arrived"
  /\ LET sessionId == SessionOf(post[r].header)
         ok == checkRateLimit(rateLimiter[sessionId], now)
         p == [post[r] EXCEPT !.sessionId = sessionId, !.admitted = ok]
     IN /\ CallCheckRateLimit(sessionId)
        /\ post' = [post EXCEPT ![r] = IF ok THEN [p EXCEPT !.pc = "json"]
                                       ELSE ErrorResponse(p, 429, 48)]
  /\ UNCHANGED <<now, openaiClient, panel, chat, expenses, exec, budgetStore, served>>

\* POST from the body to the first completion call (lines 59-85);
\* apiKey: whether OPENAI_API_KEY is set when getOpenAIClient reads it
PostBody(r, apiKey) ==
  /\ post[r].pc = "json"
  /\ LET p == post[r] IN
     IF ~p.body.parses
     THEN /\ post' = [post EXCEPT ![r] = Catch(p, "other")]
          /\ UNCHANGED openaiClient
     ELSE IF InvalidMessage(p.body.message)
     THEN /\ post' = [post EXCEPT ![r] = ErrorResponse(p, 400, 51)]
          /\ UNCHANGED openaiClient
     ELSE IF ~openaiClient /\ ~apiKey
     THEN /\ post' = [post EXCEPT ![r] = Catch(p, "API key")]
          /\ UNCHANGED openaiClient
     ELSE /\ post' = [post EXCEPT ![r] = [p EXCEPT !.pc = "create", !.calls = 1,
                                                  !.context = p.body.context,
                                                  !.messages = FirstMessages(p.body)]]
          /\ openaiClient' = TRUE
  /\ UNCHANGED <<now, rateLimiter, admitLog, lastCall, panel, chat, expenses, exec, budgetStore, served>>

\* a completion call returns `response`; POST runs to its next await or returns
PostCompletion(r, response) ==
  /\ post[r].pc = "create"
  /\ post' = [post EXCEPT ![r] = AfterCompletion(post[r], response)]
  /\ UNCHANGED <<now, rateLimiter, admitLog, lastCall, openaiClient, panel, chat, expenses, exec, budgetStore, served>>

\* a completion call throws an error whose message is of class `class`
PostCompletionFails(r, class) ==
  /\ post[r].pc = "create"
  /\ post' = [post EXCEPT ![r] = [Catch(post[r], class) EXCEPT !.failedAt = post[r].calls]]
  /\ UNCHANGED <<now, rateLimiter, admitLog, lastCall, openaiClient, panel, chat, expenses, exec, budgetStore, served>>

(***************************************************************************)
(* The chat panel and the stores it writes (part_007:213-279,              *)
(* store/chat-store.ts:45-85, part_003:63-81).                             *)
(***************************************************************************)
IdlePanel == [pc |-> "idle", loadingId |-> 0, added |-> 0]

\* chat store addMessage: appends, keeps the last MAX_MESSAGES
MAX_MESSAGES == 50

\* an addMessage that keeps the first MAX_MESSAGES
addMessageKeepsOldest(c, message) ==
  LET id == c.ids + 1
      messages == Append(c.messages, [id |-> id, role |-> message.role,
                                      content |-> message.content,
                                      isLoading |-> message.isLoading])
  IN [c EXCEPT !.ids = id,
               !.messages = IF Len(messages) > MAX_MESSAGES
                            THEN SubSeq(messages, 1, MAX_MESSAGES)
                            ELSE messages]

addMessage(c, message) ==
  LET id == c.ids + 1
      messages == Append(c.messages, [id |-> id, role |-> message.role,
                                      content |-> message.content,
                                      isLoading |-> message.isLoading])
  IN [c EXCEPT !.ids = id,
               !.messages = IF Len(messages) > MAX_MESSAGES
                            THEN SubSeq(messages, Len(messages) - MAX_MESSAGES + 1,
                                        Len(messages))
                            ELSE messages]

\* chat store updateMessage(id, {content, isLoading: false})
updateMessage(c, id, content) ==
  [c EXCEPT !.messages =
     [i \in 1..Len(@) |-> IF @[i].id = id
                          THEN [@[i] EXCEPT !.content = content, !.isLoading = FALSE]
                          ELSE @[i]]]

\* chat store removeMessage(id)
removeMessage(c, id) ==
  [c EXCEPT !.messages = SelectSeq(@, LAMBDA msg : msg.id # id)]

\* chat store clearHistory
clearHistory(c) == [c EXCEPT !.messages = <<>>, !.error = NullText]

\* expense store addExpense: the new expense goes first
addExpense(store, input) ==
  <<[id |-> Len(store) + 1, amount |-> input.amount, description |-> input.description,
     categoryId |-> input.categoryId, date |-> input.date]>> \o store

\* obj.<name> of an object read from JSON
Prop(obj, name) == IF name \in DOMAIN obj THEN obj[name] ELSE Undefined

\* the categories every context of the model carries (lib/constants.ts:8-9)
Categories ==
  <<[id |-> Str(<<"1">>), name |-> Str(<<"F", "o", "o", "d">>)],
    [id |-> Str(<<"2">>), name |-> Str(<<"T", "r", "a", "n", "s", "p", "o", "r", "t">>)]>>

\* useChatContext, as far as the tools read it: the panel of the model sends
\* its message while the expense store and the budget store are empty
ChatContext == [EmptyContext EXCEPT !.categories = Categories]

\* handleSend up to the await of fetch (lines 214-240)
HandleSend(r, content) ==
  /\ panel[r].pc = "idle"
  /\ post[r].pc = "idle"
  /\ \A q \in Slots : panel[q].pc # "fetching"
  /\ ~chat.isLoading \/ chat.messages = <<>>
  /\ LET c1 == addMessage(chat, [role |-> "user", content |-> content, isLoading |-> FALSE])
         c2 == addMessage(c1, [role |-> "assistant", content |-> Text(0), isLoading |-> TRUE])
     IN /\ chat' = [c2 EXCEPT !.isLoading = TRUE, !.error = NullText]
        /\ panel' = [panel EXCEPT ![r] = [pc |-> "fetching", loadingId |-> c2.ids, added |-> 0]]
        /\ post' = [post EXCEPT ![r] =
                      ArrivedPost("user-session",
                                  [parses |-> TRUE, message |-> content,
                                   context |-> ChatContext,
                                   history |-> NotLoading(chat.messages)])]
  /\ UNCHANGED <<now, rateLimiter, admitLog, lastCall, openaiClient, expenses, exec, budgetStore, served>>

\* mutant: addExpense is called whether or not the answer carries createdExpense
ExpensesAfterUnguarded(store, data) ==
  LET created == IF "createdExpense" \in DOMAIN data THEN data.createdExpense
                 ELSE [none |-> TRUE]
  IN addExpense(store, [amount |-> Prop(created, "amount"),
                        description |-> Prop(created, "description"),
                        categoryId |-> Prop(created, "categoryId"),
                        date |-> Prop(created, "date")])

\* lines 249-257: the expense store after a 200 answer `data`
ExpensesAfter(store, data) ==
  IF "createdExpense" \in DOMAIN data
  THEN addExpense(store, [amount |-> Prop(data.createdExpense, "amount"),
                          description |-> Prop(data.createdExpense, "description"),
                          categoryId |-> Prop(data.createdExpense, "categoryId"),
                          date |-> Prop(data.createdExpense, "date")])
  ELSE store

\* the catch and finally blocks (lines 264-276)
HandleSendCatch(c, loadingId, errorMessage) ==
  [updateMessage(c, loadingId, Text(8 + errorMessage.len))
     EXCEPT !.error = errorMessage, !.isLoading = FALSE]

\* handleSend from the answer of fetch to its end (lines 242-276)
HandleSendResponse(r) ==
  /\ panel[r].pc = "fetching"
  /\ post[r].pc = "done"
  /\ LET data == post[r].reply
         ok == post[r].status \in 200..299
     IN IF ~ok
        THEN /\ chat' = HandleSendCatch(chat, panel[r].loadingId,
                          IF "error" \in DOMAIN data /\ ~Falsy(data.error)
                          THEN data.error ELSE Text(23))
             /\ panel' = [panel EXCEPT ![r].pc = "done"]
             /\ UNCHANGED expenses
        ELSE /\ expenses' = ExpensesAfter(expenses, data)
             /\ panel' = [panel EXCEPT ![r].pc = "done",
                                       ![r].added = @ + Len(ExpensesAfter(expenses, data))
                                                      - Len(expenses)]
             /\ chat' = [updateMessage(chat, panel[r].loadingId, data.response)
                           EXCEPT !.isLoading = FALSE]
  /\ UNCHANGED <<now, rateLimiter, admitLog, lastCall, openaiClient, post, exec, budgetStore, served>>

\* fetch rejects (the network fails): handleSend runs its catch block
HandleSendNetworkError(r) ==
  /\ panel[r].pc = "fetching"
  /\ chat' = HandleSendCatch(chat, panel[r].loadingId, Text(15))
  /\ panel' = [panel EXCEPT ![r].pc = "done"]
  /\ UNCHANGED <<now, rateLimiter, admitLog, lastCall, openaiClient, post, expenses, exec, budgetStore, served>>

\* a request of another caller reaches the route
DirectRequest(r, header, body) ==
  /\ post[r].pc = "idle"
  /\ panel[r].pc = "idle"
  /\ post' = [post EXCEPT ![r] = ArrivedPost(header, body)]
  /\ UNCHANGED <<now, rateLimiter, admitLog, lastCall, openaiClient, panel, chat, expenses, exec, budgetStore, served>>

\* both invocations of a slot have ended: the slot serves the next request
Recycle(r) ==
  /\ post[r].pc = "done"
  /\ panel[r].pc \in {"idle", "done"}
  /\ post' = [post EXCEPT ![r] = IdlePost]
  /\ panel' = [panel EXCEPT ![r] = IdlePanel]
  /\ UNCHANGED <<now, rateLimiter, admitLog, lastCall, openaiClient, chat, expenses, exec, budgetStore, served>>

(***************************************************************************)
(* The chat store on its own (store/chat-store.ts:45-101).                 *)
(***************************************************************************)
\* how many ids crypto.randomUUID() hands out to chat messages
MaxChatIds == 52

\* a store that holds the first n messages of a conversation
Filled(n) ==
  [messages |-> [i \in 1..n |-> [id |-> i,
                                  role |-> IF i % 2 = 1 THEN "user" ELSE "assistant",
                                  content |-> Text(1), isLoading |-> FALSE]],
   isLoading |-> FALSE, error |-> NullText, ids |-> n]

\* the ids the callers of the model name: the newest message, one in the
\* middle, and the id of no message
IdsNamed == {chat.ids, 25, 0}

AddMessage(role, isLoading) ==
  /\ chat.ids < MaxChatIds
  /\ chat' = addMessage(chat, [role |-> role, content |-> Text(0), isLoading |-> isLoading])
  /\ UNCHANGED <<now, rateLimiter, admitLog, lastCall, openaiClient, post, panel, expenses, exec, budgetStore, served>>

UpdateMessage(id) ==
  /\ chat' = updateMessage(chat, id, Text(2))
  /\ UNCHANGED <<now, rateLimiter, admitLog, lastCall, openaiClient, post, panel, expenses, exec, budgetStore, served>>

RemoveMessage(id) ==
  /\ chat' = removeMessage(chat, id)
  /\ UNCHANGED <<now, rateLimiter, admitLog, lastCall, openaiClient, post, panel, expenses, exec, budgetStore, served>>

ClearHistory ==
  /\ chat' = clearHistory(chat)
  /\ UNCHANGED <<now, rateLimiter, admitLog, lastCall, openaiClient, post, panel, expenses, exec, budgetStore, served>>

(***************************************************************************)
(* The budget store, and the budget summaries useChatContext builds from   *)
(* it with getBudgetStatus.  Amounts are whole numbers of cents.           *)
(***************************************************************************)
\* how many ids crypto.randomUUID() hands out in one behaviour
MaxBudgetIds == 3

BUDGET_THRESHOLDS_WARNING == 75
BUDGET_THRESHOLDS_DANGER == 90

RECURSIVE GCD(_, _)
GCD(a, b) == IF b = 0 THEN a ELSE GCD(b, a % b)

\* a JS number that need not be whole: num / den in lowest terms, den > 0
Ratio(num, den) ==
  LET g == GCD(IF num < 0 THEN 0 - num ELSE num, den)
  IN [t |-> "number", num |-> num \div g, den |-> den \div g]

\* percentage >= threshold
AtLeast(percentage, threshold) == percentage.num >= threshold * percentage.den

\* getBudgetStatus without Math.min
getBudgetStatusUncapped(spent, budget) ==
  IF budget <= 0
  THEN [percentage |-> Ratio(0, 1), status |-> Str(<<"safe">>)]
  ELSE LET percentage == Ratio(100 * spent, budget)
       IN [percentage |-> percentage,
           status |-> IF AtLeast(percentage, BUDGET_THRESHOLDS_DANGER) THEN Str(<<"danger">>)
                      ELSE IF AtLeast(percentage, BUDGET_THRESHOLDS_WARNING) THEN Str(<<"warning">>)
                      ELSE Str(<<"safe">>)]

\* getBudgetStatus(spent, budget): Math.min((spent / budget) * 100, 100) and
\* the status the thresholds give it
getBudgetStatus(spent, budget) ==
  IF budget <= 0
  THEN [percentage |-> Ratio(0, 1), status |-> Str(<<"safe">>)]
  ELSE LET percentage == IF 100 * spent < 100 * budget
                         THEN Ratio(100 * spent, budget)
                         ELSE Ratio(100, 1)
       IN [percentage |-> percentage,
           status |-> IF AtLeast(percentage, BUDGET_THRESHOLDS_DANGER) THEN Str(<<"danger">>)
                      ELSE IF AtLeast(percentage, BUDGET_THRESHOLDS_WARNING) THEN Str(<<"warning">>)
                      ELSE Str(<<"safe">>)]

\* categories.find((c) => c.id === id)?.name || null
FindCategoryName(categories, id) ==
  LET hits == {i \in 1..Len(categories) : categories[i].id = id}
  IN IF hits = {} THEN Null
     ELSE LET first == CHOOSE i \in hits : \A j \in hits : i <= j
          IN IF Truthy(categories[first].name) THEN categories[first].name ELSE Null

\* the callback of budgets.map in useChatContext; spent is what
\* getSpendingForPeriod returned for the budget
BudgetSummaryOf(b, spent, categories) ==
  LET s == getBudgetStatus(spent, b.amount.n)
  IN [categoryId |-> b.categoryId,
      categoryName |-> IF Truthy(b.categoryId)
                       THEN FindCategoryName(categories, b.categoryId)
                       ELSE Null,
      amount |-> b.amount, period |-> b.period, spent |-> Num(spent),
      percentage |-> s.percentage, status |-> s.status]

budgetSummaries(budgets, spents, categories) ==
  [i \in 1..Len(budgets) |-> BudgetSummaryOf(budgets[i], spents[i], categories)]

\* budgets.findIndex((b) => b.categoryId === categoryId), 0 for -1
findIndex(budgets, categoryId) ==
  LET hits == {i \in 1..Len(budgets) : budgets[i].categoryId = categoryId}
  IN IF hits = {} THEN 0 ELSE CHOOSE i \in hits : \A j \in hits : i <= j

\* setBudget that always appends
setBudgetAppends(budgets, id, categoryId, amount, period) ==
  Append(budgets, [id |-> id, categoryId |-> categoryId, amount |-> amount, period |-> period])

\* the list setBudget leaves; id is what crypto.randomUUID() returns
setBudget(budgets, id, categoryId, amount, period) ==
  LET existingIndex == findIndex(budgets, categoryId)
  IN IF existingIndex # 0
     THEN [i \in 1..Len(budgets) |->
             IF i = existingIndex
             THEN [budgets[i] EXCEPT !.amount = amount, !.period = period]
             ELSE budgets[i]]
     ELSE Append(budgets, [id |-> id, categoryId |-> categoryId,
                           amount |-> amount, period |-> period])

\* removeBudget that removes the first budget of the list
removeBudgetFirst(budgets, categoryId) == SubSeq(budgets, 2, Len(budgets))

\* budgets.filter((b) => b.categoryId !== categoryId)
removeBudget(budgets, categoryId) ==
  SelectSeq(budgets, LAMBDA b : b.categoryId # categoryId)

NoOp == [op |-> "none", categoryId |-> Null, amount |-> Num(0), period |-> Str(<<>>),
         before |-> <<>>]

\* budgets: the store's list; made: the ids handed out; summary and spents:
\* the budget summaries of the latest render and the spending they were built
\* from; last: the store operation since the latest render
EmptyBudgetStore ==
  [budgets |-> <<>>, made |-> 0, summary |-> <<>>, spents |-> <<>>, last |-> NoOp]

BudgetKeys == {Null, Str(<<"1">>)}
BudgetAmounts == {Num(0 - 10000), Num(0), Num(10000), Num(20000)}
BudgetPeriods == {Str(<<"monthly">>), Str(<<"weekly">>)}
Spents == {7400, 7500, 8900, 9000, 18000, 25000}

SetBudget(categoryId, amount, period) ==
  /\ findIndex(budgetStore.budgets, categoryId) = 0 => budgetStore.made < MaxBudgetIds
  /\ budgetStore' =
       [budgets |-> setBudget(budgetStore.budgets, budgetStore.made + 1, categoryId, amount, period),
        made |-> IF findIndex(budgetStore.budgets, categoryId) = 0
                 THEN budgetStore.made + 1 ELSE budgetStore.made,
        summary |-> <<>>, spents |-> <<>>,
        last |-> [op |-> "setBudget", categoryId |-> categoryId, amount |-> amount,
                  period |-> period, before |-> budgetStore.budgets]]
  /\ UNCHANGED <<now, rateLimiter, admitLog, lastCall, openaiClient, post, panel, chat, expenses, exec, served>>

RemoveBudget(categoryId) ==
  /\ budgetStore' =
       [budgetStore EXCEPT !.budgets = removeBudget(budgetStore.budgets, categoryId),
                           !.summary = <<>>, !.spents = <<>>,
                           !.last = [op |-> "removeBudget", categoryId |-> categoryId,
                                     amount |-> Num(0), period |-> Str(<<>>),
                                     before |-> budgetStore.budgets]]
  /\ UNCHANGED <<now, rateLimiter, admitLog, lastCall, openaiClient, post, panel, chat, expenses, exec, served>>

\* a render of the chat panel: useChatContext maps the budgets to summaries
Summarise(spents) ==
  /\ budgetStore.budgets # <<>>
  /\ budgetStore' =
       [budgetStore EXCEPT !.summary = budgetSummaries(budgetStore.budgets, spents, Categories),
                           !.spents = spents, !.last = NoOp]
  /\ UNCHANGED <<now, rateLimiter, admitLog, lastCall, openaiClient, post, panel, chat, expenses, exec, served>>

\* how many refused requests of a session the history counts
MaxRefused == 2

Statuses == {200, 400, 429, 500}
NoneServed ==
  [s \in Sessions |-> [refused |-> 0, answered |-> [st \in Statuses |-> 0]]]

\* the answer of slot r reaches its caller, who is counted: under refused when
\* checkRateLimit turned the request away, else under the status of the
\* answer; the slot serves the next request
Deliver(r) ==
  /\ post[r].pc = "done"
  /\ panel[r].pc \in {"idle", "done"}
  /\ ~post[r].admitted => served[post[r].sessionId].refused < MaxRefused
  /\ served' = IF post[r].admitted
               THEN [served EXCEPT ![post[r].sessionId].answered[post[r].status] = @ + 1]
               ELSE [served EXCEPT ![post[r].sessionId].refused = @ + 1]
  /\ post' = [post EXCEPT ![r] = IdlePost]
  /\ panel' = [panel EXCEPT ![r] = IdlePanel]
  /\ UNCHANGED <<now, rateLimiter, admitLog, lastCall, openaiClient, chat, expenses, exec, budgetStore>>

(***************************************************************************)
(* The inputs: what callers send and what the completion endpoint answers. *)
(***************************************************************************)
S_cafe == <<" ", "c", "a", "f", "e", " ">>
S_date1 == <<"2", "0", "2", "4", "-", "0", "1", "-", "0", "1">>
S_date2 == <<"2", "0", "2", "4", "-", "0", "1", "-", "0", "2">>

Object(f) == [kind |-> "object", f |-> f]
WellFormed(value) == [wellFormed |-> TRUE, value |-> value]
Malformed == [wellFormed |-> FALSE, value |-> [kind |-> "null", f |-> [none |-> Undefined]]]

CreateArgs(amount, description, categoryId, date) ==
  Object([amount |-> amount, description |-> description,
          categoryId |-> categoryId, date |-> date])

\* the tool calls the endpoint may request, without their ids
CreateCafe ==
  [type |-> "function", name |-> "create_expense",
   arguments |-> WellFormed(CreateArgs(Num(20), Str(S_cafe), Str(<<"1">>), Str(S_date1)))]
CreateBus ==
  [type |-> "function", name |-> "create_expense",
   arguments |-> WellFormed(CreateArgs(Num(7), Str(<<"x">>), Str(<<"2">>), Str(S_date2)))]
CreateNegative ==
  [type |-> "function", name |-> "create_expense",
   arguments |-> WellFormed(CreateArgs(Num(-5), Str(<<"x">>), Str(<<"1">>), Str(S_date1)))]
CreateNoDescription ==
  [type |-> "function", name |-> "create_expense",
   arguments |-> WellFormed(Object([amount |-> Num(5), categoryId |-> Str(<<"1">>),
                                    date |-> Str(S_date1)]))]
CreateMalformed ==
  [type |-> "function", name |-> "create_expense", arguments |-> Malformed]
UnknownTool ==
  [type |-> "function", name |-> "delete_all_expenses",
   arguments |-> WellFormed(Object([confirm |-> Str(<<"y">>)]))]
CustomCall ==
  [type |-> "custom", name |-> "create_expense",
   arguments |-> WellFormed(CreateArgs(Num(9), Str(<<"x">>), Str(<<"1">>), Str(S_date1)))]

\* the lists of tool calls one answer of the endpoint may carry
RoundLists ==
  { <<>>, <<CreateCafe>>, <<CreateBus>>, <<CreateNegative>>, <<UnknownTool>>,
    <<CreateCafe, CreateBus>>, <<CreateBus, CreateNegative>>, <<CreateCafe, CustomCall>>,
    <<CreateNoDescription>>, <<CreateMalformed>>, <<CreateCafe, CreateMalformed>> }

\* the one list under SpecConc
ConcLists == { <<CreateCafe, CreateBus, CreateNegative>> }

\* the endpoint numbers the calls of its answer
WithIds(calls, round) ==
  [i \in 1..Len(calls) |->
     [id |-> 10 * round + i, type |-> calls[i].type, name |-> calls[i].name,
      arguments |-> calls[i].arguments]]

ToolCallsResponse(calls, content) ==
  [choice |-> TRUE, finish_reason |-> "tool_calls", content |-> content,
   has_tool_calls |-> TRUE, tool_calls |-> calls]

\* answers without tool calls: a reply with or without text, an answer cut at the
\* token limit, no choice at all, and a tool_calls finish without the list
PlainResponses ==
  { [choice |-> TRUE, finish_reason |-> "stop", content |-> Text(2),
     has_tool_calls |-> FALSE, tool_calls |-> <<>>],
    [choice |-> TRUE, finish_reason |-> "stop", content |-> NullText,
     has_tool_calls |-> FALSE, tool_calls |-> <<>>],
    [choice |-> FALSE, finish_reason |-> "stop", content |-> NullText,
     has_tool_calls |-> FALSE, tool_calls |-> <<>>],
    [choice |-> TRUE, finish_reason |-> "tool_calls", content |-> Text(4),
     has_tool_calls |-> FALSE, tool_calls |-> <<>>] }

\* the tool calls of the assistant messages so far
RECURSIVE ReceivedCalls(_)
ReceivedCalls(messages) ==
  IF messages = <<>> THEN 0
  ELSE ReceivedCalls(Tail(messages))
       + (IF Head(messages).role = "assistant" THEN Len(Head(messages).tool_calls) ELSE 0)

\* the answers the endpoint can give to the pending call of p; an answer
\* with an empty list of tool calls carries a text
Responses(p, plain, lists) ==
  plain
    \cup {ToolCallsResponse(WithIds(calls, p.calls),
                            IF calls = <<>> THEN Text(3) ELSE NullText) :
            calls \in {x \in lists : ReceivedCalls(p.messages) + Len(x) <= MaxToolCalls}}

ErrorClasses == {"API key", "rate", "other"}

Bodies ==
  {[parses |-> ok, message |-> m, context |-> ChatContext, history |-> <<>>] :
     ok \in {TRUE}, m \in {Text(0), Text(MAX_MESSAGE_LENGTH),
                           Text(MAX_MESSAGE_LENGTH + 1), UndefinedText, NumberText}}
    \cup {[parses |-> FALSE, message |-> UndefinedText, context |-> ChatContext,
           history |-> <<>>]}

(***************************************************************************)
(* The tool executor on its own: the context object of one request and the *)
(* tool calls made on it, one after the other.                             *)
(***************************************************************************)
\* the expenses of a context have at most MaxExpenses entries, two lists apart
MaxExpenses == 2

Day(y, m, d) == [y |-> y, m |-> m, d |-> d]
Food == Str(<<"F", "o", "o", "d">>)
Transport == Str(<<"T", "r", "a", "n", "s", "p", "o", "r", "t">>)

Expense(id, cents, description, categoryId, categoryName, date) ==
  [id |-> id, amount |-> Num(cents), description |-> Str(description),
   categoryId |-> Str(<<categoryId>>), categoryName |-> categoryName, date |-> date]

\* the expenses the lists are made of: the week of Friday 2024-03-01 runs from
\* Monday 2024-02-26 to Sunday 2024-03-03
ExpensePool ==
  { Expense(1, 4000, <<"C", "a", "f", "e">>, "1", Food, Day(2024, 3, 1)),
    Expense(2, 4000, <<"b", "u", "s", " ", "c", "a", "f", "e">>, "2", Transport,
            Day(2024, 2, 26)),
    Expense(3, 1000, <<"B", "u", "s">>, "2", Transport, Day(2024, 3, 3)),
    Expense(4, 2599, <<"f", "e", "e">>, "1", Food, Day(2023, 12, 31)) }

RECURSIVE ListsOfLen(_)
ListsOfLen(n) ==
  IF n = 0 THEN {<<>>}
  ELSE {Append(x, e) : x \in ListsOfLen(n - 1), e \in ExpensePool} 

\* the lists without a repeated expense
Distinct(x) == \A i, j \in 1..Len(x) : i # j => x[i] # x[j]

\* fifteen expenses of March 2024, several with the same amount
Fifteen ==
  [i \in 1..15 |->
     Expense(100 + i, 100 * (((7 * i) % 5) + 1), <<"x">>,
             IF i % 2 = 0 THEN "1" ELSE "2", IF i % 2 = 0 THEN Food ELSE Transport,
             Day(2024, 3, i))]

\* Food 40, Food 10, Transport 50
FoodFoodTransport ==
  <<Expense(201, 4000, <<"a">>, "1", Food, Day(2024, 3, 1)),
    Expense(202, 1000, <<"b">>, "1", Food, Day(2024, 3, 1)),
    Expense(203, 5000, <<"c">>, "2", Transport, Day(2024, 3, 1))>>

\* one expense of amount 0
Free == <<Expense(301, 0, <<"f", "r", "e", "e">>, "1", Food, Day(2024, 3, 1))>>

ExpenseLists ==
  {x \in UNION {ListsOfLen(n) : n \in 0..MaxExpenses} : Distinct(x)}
    \cup {Fifteen, FoodFoodTransport, Free}

\* context.today: a Friday, a Sunday, and the Monday that opens a year
Todays == {Day(2024, 3, 1), Day(2024, 3, 3), Day(2024, 1, 1)}

\* the budgets of most contexts, as useChatContext summarises them: the total
\* budget, a quarter spent, and the budget of category 2, overspent
Budgets ==
  <<BudgetSummaryOf([id |-> 1, categoryId |-> Null, amount |-> Num(50000),
                     period |-> Str(<<"monthly">>)], 12550, Categories),
    BudgetSummaryOf([id |-> 2, categoryId |-> Str(<<"2">>), amount |-> Num(10000),
                     period |-> Str(<<"weekly">>)], 12000, Categories)>>

\* every list of expenses with the two budgets, and one context without budgets
Contexts ==
  {[expenses |-> x, categories |-> Categories, budgets |-> Budgets,
    settings |-> [currency |-> Str(<<"EUR">>)], today |-> today] :
     x \in ExpenseLists, today \in Todays}
  \cup {[expenses |-> <<>>, categories |-> Categories, budgets |-> <<>>,
         settings |-> [currency |-> Str(<<"EUR">>)], today |-> Day(2024, 3, 1)]}

\* the days new Date() may fall on
Clocks == {Day(2024, 2, 10), Day(2023, 2, 28)}

Periods ==
  {Str(<<"today">>), Str(<<"this_week">>), Str(<<"this_month">>),
   Str(<<"last_month">>), Str(<<"all_time">>)}

ToolCall(name, f) == [name |-> name, input |-> Object(f)]

SummaryCalls ==
  {ToolCall("get_spending_summary", [period |-> period]) : period \in Periods}
    \cup {ToolCall("get_spending_summary", [period |-> period, categoryId |-> Str(<<id>>)]) :
            period \in {Str(<<"this_week">>), Str(<<"all_time">>)}, id \in {"1", "9"}}

TopCalls ==
  {ToolCall("get_top_expenses", [period |-> period]) :
     period \in Periods \ {Str(<<"today">>)}}
    \cup {ToolCall("get_top_expenses", [period |-> period, limit |-> Num(k)]) :
            period \in {Str(<<"this_week">>), Str(<<"all_time">>)}, k \in {1}}

BreakdownCalls ==
  {ToolCall("get_category_breakdown", [period |-> period]) :
     period \in Periods \ {Str(<<"today">>)}}

SearchCalls ==
  { ToolCall("search_expenses", [limit |-> Num(10)]),
    ToolCall("search_expenses", [limit |-> Num(1)]),
    ToolCall("search_expenses", [query |-> Str(<<"C", "A", "F">>)]),
    ToolCall("search_expenses", [query |-> Str(<<"u", "s">>), categoryId |-> Str(<<"2">>)]),
    ToolCall("search_expenses", [minAmount |-> Num(2599), maxAmount |-> Num(4000)]),
    ToolCall("search_expenses", [maxAmount |-> Num(2599), limit |-> Num(1)]) }

BudgetCalls ==
  { ToolCall("get_budget_status", [categoryId |-> Str(<<"2">>)]),
    ToolCall("get_budget_status", [categoryId |-> Str(<<"1">>)]),
    ToolCall("get_budget_status", [categoryId |-> Str(<<>>)]),
    ToolCall("get_budget_status", [categoryId |-> Undefined]) }

S_dateShort == <<"2", "0", "2", "4", "-", "1", "-", "0", "1">>

CreateCalls ==
  {[name |-> "create_expense", input |-> CreateArgs(amount, Str(description), Str(<<id>>), Str(date))] :
     amount \in {Num(0), Num(20)},
     description \in {<<" ", "\t">>, S_cafe},
     id \in {"1", "9"},
     date \in {S_date1, S_dateShort}}
    \cup {[name |-> "create_expense",
           input |-> CreateArgs(Num(-5), Str(S_cafe), Str(<<"1">>), Str(S_date1))],
          [name |-> "create_expense",
           input |-> CreateArgs(Num(20), Str(<<>>), Str(<<"1">>), Str(S_date1))]}

OtherCalls ==
  { ToolCall("delete_all_expenses", [confirm |-> Str(<<"y">>)]),
    [name |-> "get_top_expenses", input |-> [kind |-> "null", f |-> [none |-> Undefined]]] }

ToolCalls ==
  SummaryCalls \cup TopCalls \cup BreakdownCalls \cup SearchCalls \cup BudgetCalls
    \cup CreateCalls \cup OtherCalls

\* no call yet
NoCall ==
  [name |-> "", input |-> [kind |-> "null", f |-> [none |-> Undefined]],
   before |-> EmptyContext, out |-> Returned([none |-> TRUE], FALSE)]

IdleExec ==
  [clock |-> Day(2024, 2, 10), context |-> EmptyContext, snapshot |-> EmptyContext,
   last |-> NoCall, prev |-> NoCall]

\* one pass of the for loop of POST (part_006:111-116) on its own: the call
\* executeToolCall(name, input, context) on the context object of the request;
\* last is this call, prev the call before it when that was the same call
CallTool(call) ==
  /\ ~exec.last.out.thrown
  /\ exec' = [exec EXCEPT
                !.context = contextAfterToolCall(call.name, call.input, @),
                !.last = [name |-> call.name, input |-> call.input,
                          before |-> exec.context,
                          out |-> executeToolCall(call.name, call.input, exec.context)],
                !.prev = IF exec.last.name = call.name /\ exec.last.input = call.input
                         THEN exec.last ELSE NoCall]
  /\ UNCHANGED <<now, rateLimiter, admitLog, lastCall, openaiClient, post, panel, chat, expenses, budgetStore, served>>

InitRate ==
  /\ now = 0
  /\ rateLimiter = [s \in Sessions |-> NoEntry]
  /\ admitLog = [s \in Sessions |-> [t \in Times |-> 0]]
  /\ lastCall = [session |-> "", at |-> 0, found |-> NoEntry, admitted |-> FALSE]

Init ==
  /\ InitRate
  /\ openaiClient = FALSE
  /\ post = [r \in Slots |-> IdlePost]
  /\ panel = [r \in Slots |-> IdlePanel]
  /\ chat = [messages |-> <<>>, isLoading |-> FALSE, error |-> NullText, ids |-> 0]
  /\ expenses = <<>>
  /\ exec = IdleExec
  /\ budgetStore = EmptyBudgetStore
  /\ served = NoneServed

\* a request whose body carried the context `context`, before its first tool call
InitTool ==
  /\ InitRate
  /\ openaiClient = FALSE
  /\ post = [r \in Slots |-> IdlePost]
  /\ panel = [r \in Slots |-> IdlePanel]
  /\ chat = [messages |-> <<>>, isLoading |-> FALSE, error |-> NullText, ids |-> 0]
  /\ expenses = <<>>
  /\ \E context \in Contexts, clock \in Clocks :
       exec = [IdleExec EXCEPT !.clock = clock, !.context = context, !.snapshot = context]
  /\ budgetStore = EmptyBudgetStore
  /\ served = NoneServed

NextTool == \E call \in ToolCalls : CallTool(call)

SpecTool == InitTool /\ [][NextTool]_vars

\* checkRateLimit alone, with the clock
\* the chat store after the first 49 or 50 messages of a conversation
InitChat ==
  /\ InitRate
  /\ openaiClient = FALSE
  /\ post = [r \in Slots |-> IdlePost]
  /\ panel = [r \in Slots |-> IdlePanel]
  /\ \E n \in {MAX_MESSAGES - 1, MAX_MESSAGES} : chat = Filled(n)
  /\ expenses = <<>>
  /\ exec = IdleExec
  /\ budgetStore = EmptyBudgetStore
  /\ served = NoneServed

NextChat ==
  \/ \E add \in {<<"user", FALSE>>, <<"assistant", TRUE>>} : AddMessage(add[1], add[2])
  \/ \E id \in IdsNamed : UpdateMessage(id)
  \/ \E id \in IdsNamed : RemoveMessage(id)
  \/ ClearHistory

SpecChat == InitChat /\ [][NextChat]_vars

NextBudget ==
  \/ \E categoryId \in BudgetKeys, amount \in BudgetAmounts, period \in BudgetPeriods :
       SetBudget(categoryId, amount, period)
  \/ \E categoryId \in BudgetKeys : RemoveBudget(categoryId)
  \/ \E spents \in [1..Len(budgetStore.budgets) -> Spents] : Summarise(spents)

SpecBudget == Init /\ [][NextBudget]_vars

NextRate ==
  \/ Tick
  \/ Admit("user-session")

SpecRate == Init /\ [][NextRate]_vars

\* one request: a turn of the chat panel or a request of another caller
Next ==
  \/ \E content \in {Text(1), Text(MAX_MESSAGE_LENGTH + 1)} : HandleSend(1, content)
  \/ \E body \in Bodies : DirectRequest(1, NoHeader, body)
  \/ PostStart(1)
  \/ \E apiKey \in BOOLEAN : PostBody(1, apiKey)
  \/ \E response \in Responses(post[1], PlainResponses, RoundLists) : PostCompletion(1, response)
  \/ \E class \in ErrorClasses : PostCompletionFails(1, class)
  \/ HandleSendResponse(1)
  \/ HandleSendNetworkError(1)

Spec == Init /\ [][Next]_vars

\* The handler's code runs once the request has arrived, request.json()
\* settles, and every completion call returns or fails.
Fairness ==
  /\ WF_vars(PostStart(1))
  /\ WF_vars(\E apiKey \in BOOLEAN : PostBody(1, apiKey))
  /\ WF_vars((\E response \in Responses(post[1], PlainResponses, RoundLists) :
                PostCompletion(1, response))
             \/ (\E class \in ErrorClasses : PostCompletionFails(1, class)))

SpecLive == Init /\ [][Next]_vars /\ Fairness

\* the route alone, several requests in flight, each slot serving request after request
ConcBodies ==
  {[parses |-> TRUE, message |-> m, context |-> ChatContext, history |-> <<>>] :
     m \in {Text(1), Text(MAX_MESSAGE_LENGTH + 1)}}
ConcPlain == {r \in PlainResponses : r.finish_reason = "stop" /\ r.content = Text(2)}

NextConc ==
  \/ \E r \in Slots, body \in ConcBodies : DirectRequest(r, "user-session", body)
  \/ \E r \in Slots : PostStart(r)
  \/ \E r \in Slots : PostBody(r, TRUE)
  \/ \E r \in Slots : \E response \in Responses(post[r], ConcPlain, ConcLists) :
       PostCompletion(r, response)
  \/ \E r \in Slots : PostCompletionFails(r, "rate")
  \/ \E r \in Slots : Recycle(r)

SpecConc == Init /\ [][NextConc]_vars

\* the route alone, request after request with and without a session header
\* within one window, each with a message that is too long
NextKeys ==
  \/ \E header \in Headers, body \in {b \in ConcBodies : InvalidMessage(b.message)} :
       DirectRequest(1, header, body)
  \/ PostStart(1)
  \/ PostBody(1, TRUE)
  \/ Recycle(1)

SpecKeys == Init /\ [][NextKeys]_vars

\* the route alone, request after request of one session within one window,
\* the answers counted
NextAdmit ==
  \/ \E body \in ConcBodies : DirectRequest(1, "user-session", body)
  \/ PostStart(1)
  \/ PostBody(1, TRUE)
  \/ \E response \in ConcPlain : PostCompletion(1, response)
  \/ PostCompletionFails(1, "other")
  \/ Deliver(1)

SpecAdmit == Init /\ [][NextAdmit]_vars

\* the route alone, one request whose body carries a history
MaxHistory == 13

\* a history of n chat messages, user and assistant in turn, the i-th of
\* content length i, those of `loading` being loading placeholders
History(n, loading) ==
  [i \in 1..n |-> [id |-> i, role |-> IF i % 2 = 1 THEN "user" ELSE "assistant",
                   content |-> Text(i), isLoading |-> i \in loading]]

Histories ==
  UNION {{History(n, loading) : loading \in {{}, {n}, {3, 6}, 1..n, {n - 10}}} :
         n \in 0..MaxHistory}

HistoryBodies ==
  {[parses |-> TRUE, message |-> Text(MAX_MESSAGE_LENGTH), context |-> ChatContext,
    history |-> h] : h \in Histories}

NextHistory ==
  \/ \E body \in HistoryBodies : DirectRequest(1, NoHeader, body)
  \/ PostStart(1)
  \/ PostBody(1, TRUE)
  \/ \E response \in ConcPlain : PostCompletion(1, response)

SpecHistory == Init /\ [][NextHistory]_vars

(***************************************************************************)
(* What the claims are stated with.                                        *)
(***************************************************************************)
AssistantMessages(ms) == {i \in 1..Len(ms) : ms[i].role = "assistant"}
ToolMessages(ms) == {i \in 1..Len(ms) : ms[i].role = "tool"}

\* the function tool calls of the assistant messages of ms
FunctionCalls(ms) ==
  UNION {{ms[i].tool_calls[k] : k \in {j \in 1..Len(ms[i].tool_calls) :
                                           ms[i].tool_calls[j].type = "function"}} :
         i \in AssistantMessages(ms)}

\* the tool-result messages keyed to the call tc
ResultsOf(ms, tc) == {i \in ToolMessages(ms) : ms[i].tool_call_id = tc.id}

\* every tool round so far was followed by a completion call
NextCallIssued(p) == p.calls = Cardinality(AssistantMessages(p.messages)) + 1

\* the results of the create_expense calls that succeeded, in execution order
SuccessfulCreates(ms) ==
  SelectSeq(ms, LAMBDA m : m.role = "tool" /\ "success" \in DOMAIN m.content)

RECURSIVE SumOver(_, _)
SumOver(f, S) ==
  IF S = {} THEN 0
  ELSE LET x == CHOOSE y \in S : TRUE IN f[x] + SumOver(f, S \ {x})

\* the calls of session s admitted at the instants from..to
AdmittedIn(s, from, to) == SumOver(admitLog[s], {t \in Times : from <= t /\ t <= to})

(***************************************************************************)
(* C1 (Spec).  For one user message POST issues at most 6 completion calls *)
(* (1 initial + at most 5 continuations), whatever the endpoint answers,   *)
(* also when it answers every call with a tool-call request.               *)
(***************************************************************************)
C1_AtMostSixCalls ==
  \A r \in Slots : post[r].calls <= 6 /\ post[r].iterations <= 5

\* the endpoint asked for tools six times: the sixth answer ended the request
C1_Witness ==
  /\ post[1].pc = "done"
  /\ post[1].status = 200
  /\ post[1].calls = 6
  /\ post[1].iterations = 5
  /\ post[1].reply.response = Text(3)

(***************************************************************************)
(* C2 (Spec).  A tool call whose argument payload is not valid JSON gets   *)
(* an error tool-result message, and the loop goes on to the next          *)
(* completion call instead of ending the request with an error.            *)
(* The code parses without a guard: the SyntaxError reaches the catch      *)
(* block of POST and the request ends with status 500.                     *)
(***************************************************************************)
C2_ParseFailureIsToolError ==
  \A r \in Slots :
    \A tc \in FunctionCalls(post[r].messages) :
      ~tc.arguments.wellFormed =>
        /\ \E i \in ResultsOf(post[r].messages, tc) :
             "error" \in DOMAIN post[r].messages[i].content
        /\ NextCallIssued(post[r])

(***************************************************************************)
(* C3 (Spec).  For every tool name and every parsed argument object,       *)
(* executeToolCall returns {result, isError} and does not throw: the       *)
(* result of every call is passed back and the loop continues.             *)
(* create_expense without description throws a TypeError at .trim().       *)
(***************************************************************************)
C3_ToolCallNeverThrows ==
  \A r \in Slots :
    \A tc \in FunctionCalls(post[r].messages) :
      tc.arguments.wellFormed =>
        /\ ~executeToolCall(tc.name, tc.arguments.value, post[r].body.context).thrown
        /\ ResultsOf(post[r].messages, tc) # {}
        /\ NextCallIssued(post[r])

(***************************************************************************)
(* C4 (SpecRate).  Fixed window: a call that finds no entry, or an entry   *)
(* whose resetAt lies before now, is admitted and opens a window of 60 s   *)
(* with count 1; a call inside a window is admitted and counted while      *)
(* count < 10, and rejected without any change from count 10 on; so a      *)
(* window admits exactly as many calls as its count, at most 10.           *)
(***************************************************************************)
C4_FixedWindow ==
  /\ lastCall.session \in Sessions =>
       LET found == lastCall.found
           entry == rateLimiter[lastCall.session]
       IN /\ (~found.present \/ found.resetAt < lastCall.at) =>
               /\ lastCall.admitted
               /\ entry = [present |-> TRUE, count |-> 1, resetAt |-> lastCall.at + 60000]
          /\ (found.present /\ found.resetAt >= lastCall.at /\ found.count < 10) =>
               /\ lastCall.admitted
               /\ entry = [present |-> TRUE, count |-> found.count + 1,
                           resetAt |-> found.resetAt]
          /\ (found.present /\ found.resetAt >= lastCall.at /\ found.count >= 10) =>
               /\ ~lastCall.admitted
               /\ entry = found
  /\ \A s \in Sessions :
       rateLimiter[s].present =>
         /\ rateLimiter[s].count \in 1..10
         /\ rateLimiter[s].count
              = AdmittedIn(s, rateLimiter[s].resetAt - 60000, rateLimiter[s].resetAt)

\* a window took its 10 calls, expired, and the next call opened a new one
C4_Witness ==
  /\ lastCall.session = "user-session"
  /\ lastCall.found.count = 10
  /\ lastCall.found.resetAt < lastCall.at
  /\ lastCall.admitted
  /\ rateLimiter["user-session"].count = 1

(***************************************************************************)
(* C5 (SpecRate), as claimed: no interval of 60 seconds contains more than *)
(* 10 admitted requests of one session.                                    *)
(***************************************************************************)
C5_RollingWindow ==
  \A s \in Sessions : \A a \in Times : AdmittedIn(s, a, a + 60000 - 1) <= 10

(***************************************************************************)
(* C5 (SpecRate), amended: at most 10 requests of a session are admitted   *)
(* in one fixed window (from the admission that opens it to its resetAt);  *)
(* an interval of 60 seconds meets at most two windows and contains at     *)
(* most 20 admitted requests.                                              *)
(***************************************************************************)
C5_FixedWindowBound ==
  \A s \in Sessions :
    /\ rateLimiter[s].present =>
         AdmittedIn(s, rateLimiter[s].resetAt - 60000, rateLimiter[s].resetAt) <= 10
    /\ \A a \in Times : AdmittedIn(s, a, a + 60000 - 1) <= 20

\* more than 10 admissions within 60 seconds, across the end of a window
C5_Witness ==
  \E a \in Times : AdmittedIn("user-session", a, a + 60000 - 1) > 10

(***************************************************************************)
(* C6 (SpecConc).  With several requests of one session in flight and      *)
(* interleaved at every await of POST, no increment is lost and no window  *)
(* admits more than 10: the count of the session's entry is the number of  *)
(* requests admitted in its window, and the admitted requests in flight    *)
(* are among them.                                                         *)
(***************************************************************************)
C6_AtomicCheckAndIncrement ==
  \A s \in Sessions :
    LET inFlight == {r \in Slots : /\ post[r].pc \in {"json", "create"}
                                   /\ post[r].sessionId = s}
    IN /\ \A r \in inFlight : post[r].admitted
       /\ inFlight # {} => rateLimiter[s].present
       /\ rateLimiter[s].present =>
            /\ rateLimiter[s].count
                 = AdmittedIn(s, rateLimiter[s].resetAt - 60000, rateLimiter[s].resetAt)
            /\ rateLimiter[s].count <= 10
            /\ Cardinality(inFlight) <= rateLimiter[s].count

\* two requests of the session wait at their awaits, the window is full
C6_Witness ==
  /\ post[1].pc = "json"
  /\ post[2].pc = "create"
  /\ post[1].sessionId = post[2].sessionId
  /\ rateLimiter[post[1].sessionId].count = 10

C8_LastWriteWins ==
  \A r \in Slots :
    LET created == SuccessfulCreates(post[r].messages) IN
    created # <<>> =>
      /\ DropUndefined(post[r].createdExpense) = created[Len(created)].content.expense
      /\ (post[r].pc = "done" /\ post[r].status = 200) =>
           /\ "createdExpense" \in DOMAIN post[r].reply
           /\ post[r].reply.createdExpense = created[Len(created)].content.expense

\* two proposals in two rounds, then a failing create_expense: the second is returned
C8_Witness ==
  LET ms == post[1].messages
      created == SuccessfulCreates(ms)
  IN /\ post[1].pc = "done"
     /\ post[1].status = 200
     /\ Len(created) = 2
     /\ created[1].content.expense # created[2].content.expense
     /\ ms[Len(ms)].role = "tool"
     /\ "error" \in DOMAIN ms[Len(ms)].content
     /\ post[1].reply.createdExpense.categoryId = Str(<<"2">>)

(***************************************************************************)
(* C9 (Spec).  A create_expense call whose amount is a number <= 0 returns *)
(* an error and no proposal; while no create_expense call of the request   *)
(* has succeeded, the request holds no createdExpense and its answer       *)
(* carries none.                                                           *)
(***************************************************************************)
C9_NoProposalWithoutSuccess ==
  \A r \in Slots :
    LET ms == post[r].messages IN
    /\ \A tc \in FunctionCalls(ms) :
         ( /\ tc.name = "create_expense"
           /\ tc.arguments.wellFormed
           /\ Get(tc.arguments.value, "amount").t = "number"
           /\ Get(tc.arguments.value, "amount").n <= 0 ) =>
           \A i \in ResultsOf(ms, tc) :
             "error" \in DOMAIN ms[i].content /\ "success" \notin DOMAIN ms[i].content
    /\ SuccessfulCreates(ms) = <<>> =>
         /\ post[r].createdExpense = NoExpense
         /\ post[r].pc = "done" => "createdExpense" \notin DOMAIN post[r].reply

\* the only create_expense of the request had amount -5: a 200 answer without proposal
C9_Witness ==
  LET ms == post[1].messages IN
  /\ post[1].pc = "done"
  /\ post[1].status = 200
  /\ \E tc \in FunctionCalls(ms) :
       /\ Get(tc.arguments.value, "amount") = Num(-5)
       /\ ResultsOf(ms, tc) # {}
  /\ SuccessfulCreates(ms) = <<>>
  /\ "createdExpense" \notin DOMAIN post[1].reply

(***************************************************************************)
(* C10 (Spec).  One user message sent through the chat panel causes at     *)
(* most one addExpense, and only when the panel has received the answer of *)
(* the completed request with an OK status and a createdExpense field; the *)
(* expense added is that proposal.  Nothing else writes to the expense     *)
(* store: it holds exactly the expenses the panel added, and none when the *)
(* request failed or the network did.                                      *)
(***************************************************************************)
C10_AtMostOneAddExpense ==
  /\ Len(expenses) = SumOver([r \in Slots |-> panel[r].added], Slots)
  /\ \A r \in Slots :
       /\ panel[r].added <= 1
       /\ panel[r].added = 1 =>
            /\ panel[r].pc = "done"
            /\ post[r].pc = "done"
            /\ post[r].status = 200
            /\ "createdExpense" \in DOMAIN post[r].reply
            /\ \E i \in 1..Len(expenses) :
                 /\ expenses[i].amount = post[r].reply.createdExpense.amount
                 /\ expenses[i].description = post[r].reply.createdExpense.description
                 /\ expenses[i].categoryId = post[r].reply.createdExpense.categoryId
                 /\ expenses[i].date = post[r].reply.createdExpense.date
       /\ (panel[r].pc = "done" /\ (post[r].pc # "done" \/ post[r].status # 200)) =>
            panel[r].added = 0

\* the panel added the proposal of the turn to the store
C10_Witness ==
  /\ panel[1].pc = "done"
  /\ panel[1].added = 1
  /\ Len(expenses) = 1
  /\ expenses[1].description = Str(<<"c", "a", "f", "e">>)
  /\ expenses[1].amount = Num(20)

(***************************************************************************)
(* C11 (SpecLive).  Every request terminates: when every completion call   *)
(* returns or fails, a request that has reached POST is eventually         *)
(* answered, whatever plain replies and tool-call requests the endpoint    *)
(* gives.                                                                  *)
(***************************************************************************)
C11_EveryRequestTerminates ==
  \A r \in {1} : (post[r].pc = "arrived") ~> (post[r].pc = "done")

\* the endpoint asked for tools at every call and the request still ended,
\* with the results of the executed calls in its message sequence
C11_Witness ==
  /\ post[1].pc = "done"
  /\ post[1].calls = 6
  /\ ToolMessages(post[1].messages) # {}
  /\ Cardinality(AssistantMessages(post[1].messages)) = 5

(***************************************************************************)
(* What the claims about the tools are stated with.                        *)
(***************************************************************************)
\* the last call was the tool `name` and it returned
Called(name) == exec.last.name = name /\ ~exec.last.out.thrown

\* the argument `name` of the last call, dflt when it was left out
ArgOr(name, dflt) ==
  IF name \in DOMAIN exec.last.input.f /\ exec.last.input.f[name] # Undefined
  THEN exec.last.input.f[name] ELSE dflt

Min(a, b) == IF a <= b THEN a ELSE b

\* the first k entries of x
FirstK(x, k) == [i \in 1..Min(k, Len(x)) |-> x[i]]

(***************************************************************************)
(* C12 (SpecTool).  Executing tools leaves the context of the request      *)
(* as the caller supplied it: after any sequence of tool calls the         *)
(* expenses are the same elements in the same order, and the categories    *)
(* and budgets are unchanged.                                              *)
(* get_top_expenses with period all_time sorts context.expenses in place.  *)
(***************************************************************************)
C12_ToolsLeaveContextUnchanged ==
  /\ exec.context.expenses = exec.snapshot.expenses
  /\ exec.context.categories = exec.snapshot.categories
  /\ exec.context.budgets = exec.snapshot.budgets

(***************************************************************************)
(* C13 (SpecTool).  search_expenses returns the expenses of the snapshot   *)
(* supplied with the request that pass its filters (query as a             *)
(* case-insensitive substring of the description, categoryId equal,        *)
(* minAmount <= amount <= maxAmount), in the order of the snapshot, cut to *)
(* the first `limit` (10 when omitted), whichever tool calls the request   *)
(* executed before.                                                        *)
(* After get_top_expenses with all_time the order is that of the amounts.  *)
(***************************************************************************)
C13_SearchKeepsSnapshotOrder ==
  Called("search_expenses") =>
    LET query == ArgOr("query", Str(<<>>))
        passes(e) ==
          /\ includes(toLowerCase(e.description.s), toLowerCase(query.s))
          /\ "categoryId" \in DOMAIN exec.last.input.f =>
               e.categoryId = exec.last.input.f.categoryId
          /\ "minAmount" \in DOMAIN exec.last.input.f =>
               e.amount.n >= exec.last.input.f.minAmount.n
          /\ "maxAmount" \in DOMAIN exec.last.input.f =>
               e.amount.n <= exec.last.input.f.maxAmount.n
        matching == SelectSeq(exec.snapshot.expenses, passes)
        kept == FirstK(matching, ArgOr("limit", Num(10)).n)
    IN /\ ~exec.last.out.isError
       /\ exec.last.out.result.expenses = [i \in 1..Len(kept) |-> ExpenseRow(kept[i])]
       /\ exec.last.out.result.count = Num(Len(kept))

(***************************************************************************)
(* C14 (SpecTool).  For an input of the declared types (amount a number,   *)
(* description, categoryId and date strings) create_expense returns        *)
(* isError=true exactly when amount <= 0, or the description is empty      *)
(* after trimming, or no category of the context has the categoryId, or    *)
(* the date is not 4 digits, dash, 2 digits, dash, 2 digits; the first of  *)
(* these checks that fails, in this order, gives the error; every other    *)
(* input gives isError=false and {success: true, expense: {amount, the     *)
(* trimmed description, categoryId, the name of the category, date}}.      *)
(***************************************************************************)
C14_CreateExpenseValidation ==
  exec.last.name = "create_expense" =>
    LET f == exec.last.input.f
        out == exec.last.out
        d == f.description.s
        categories == exec.last.before.categories
        inside == {i \in 1..Len(d) : ~IsSpace(d[i])}
        badAmount == f.amount.n <= 0
        emptyDescription == inside = {}
        noCategory == \A i \in 1..Len(categories) : categories[i].id # f.categoryId
        badDate == ~ /\ Len(f.date.s) = 10
                     /\ \A i \in 1..10 : IF i \in {5, 8} THEN f.date.s[i] = "-"
                                         ELSE f.date.s[i] \in Digit
    IN /\ ~out.thrown
       /\ out.isError = (badAmount \/ emptyDescription \/ noCategory \/ badDate)
       /\ badAmount => out.result = [error |-> <<"Le montant doit etre positif">>]
       /\ (~badAmount /\ emptyDescription) =>
            out.result = [error |-> <<"La description est requise">>]
       /\ (~badAmount /\ ~emptyDescription /\ noCategory) =>
            out.result = [error |-> <<"Categorie non trouvee: ">> \o f.categoryId.s]
       /\ (~badAmount /\ ~emptyDescription /\ ~noCategory /\ badDate) =>
            out.result = [error |-> <<"Format de date invalide. Utilisez YYYY-MM-DD">>]
       /\ ~out.isError =>
            /\ DOMAIN out.result = {"success", "expense"}
            /\ out.result.success
            /\ out.result.expense.amount = f.amount
            /\ \E i, j \in inside :
                 /\ \A k \in inside : i <= k /\ k <= j
                 /\ out.result.expense.description = Str(SubSeq(d, i, j))
            /\ out.result.expense.categoryId = f.categoryId
            /\ \E i \in 1..Len(categories) :
                 /\ categories[i].id = f.categoryId
                 /\ out.result.expense.categoryName = categories[i].name
            /\ out.result.expense.date = f.date

\* all four checks would fail: the error is that of the amount
C14_Witness ==
  /\ exec.last.name = "create_expense"
  /\ exec.last.input = CreateArgs(Num(0), Str(<<" ", "\t">>), Str(<<"9">>), Str(S_dateShort))
  /\ exec.last.out.isError
  /\ exec.last.out.result = [error |-> <<"Le montant doit etre positif">>]

C16_CeilingIsNotAnError ==
  \A r \in Slots :
    LET p == post[r]
        exhausted == /\ p.pc = "done"
                     /\ p.calls = 6
                     /\ p.failedAt = 0
                     /\ p.response.choice
                     /\ p.response.finish_reason = "tool_calls"
    IN exhausted =>
         /\ p.iterations = 5
         /\ p.status = 200
         /\ p.reply.response =
              (IF p.response.content.t = "string" /\ p.response.content.len > 0
               THEN p.response.content ELSE Text(0))
         /\ IF SuccessfulCreates(p.messages) = <<>>
            THEN "createdExpense" \notin DOMAIN p.reply
            ELSE /\ "createdExpense" \in DOMAIN p.reply
                 /\ p.reply.createdExpense = DropUndefined(p.createdExpense)

\* the 6th answer asks for another create_expense and has no text: the
\* request ends with an empty response and the proposal of an earlier round
C16_Witness ==
  /\ post[1].pc = "done"
  /\ post[1].calls = 6
  /\ post[1].failedAt = 0
  /\ post[1].response.finish_reason = "tool_calls"
  /\ post[1].response.tool_calls # <<>>
  /\ post[1].response.content = NullText
  /\ post[1].status = 200
  /\ post[1].reply.response = Text(0)
  /\ "createdExpense" \in DOMAIN post[1].reply

(***************************************************************************)
(* C17 (Spec).  Every request that ends has exactly one of the answers     *)
(* 200 with {response, createdExpense?} and 400, 429 or 500 with {error};  *)
(* no exception leaves POST.  When a completion call fails, the first or a *)
(* continuation, the request ends at once with 429 or 500 and {error}: no  *)
(* further completion call is issued and the answer carries no             *)
(* createdExpense, also when one was captured before.                      *)
(***************************************************************************)
C17_AlwaysAResponseObject ==
  \A r \in Slots :
    LET p == post[r] IN
    /\ p.pc \in {"idle", "arrived", "json", "create", "done"}
    /\ p.pc = "done" =>
         \/ /\ p.status = 200
            /\ DOMAIN p.reply \in {{"response"}, {"response", "createdExpense"}}
            /\ p.reply.response.t = "string"
         \/ /\ p.status \in {400, 429, 500}
            /\ DOMAIN p.reply = {"error"}
            /\ p.reply.error.t = "string"
            /\ p.reply.error.len > 0
    /\ p.failedAt # 0 =>
         /\ p.pc = "done"
         /\ p.status \in {429, 500}
         /\ DOMAIN p.reply = {"error"}
         /\ p.calls = p.failedAt

\* a continuation call failed after a proposal had been captured
C17_Witness ==
  /\ post[1].pc = "done"
  /\ post[1].failedAt = 3
  /\ post[1].calls = 3
  /\ post[1].createdExpense # NoExpense
  /\ post[1].status = 429
  /\ DOMAIN post[1].reply = {"error"}

(***************************************************************************)
(* The periods as the specification describes them, relative to today.     *)
(***************************************************************************)
\* the Monday on or before the day number t (day 0 is a Sunday)
MondayOf(t) == CHOOSE m \in (t - 6)..t : m % 7 = 1

InPeriod(date, period, today) ==
  CASE period = Str(<<"today">>) -> date = today
    [] period = Str(<<"this_week">>) ->
         /\ MondayOf(DayNumber(today)) <= DayNumber(date)
         /\ DayNumber(date) <= MondayOf(DayNumber(today)) + 6
    [] period = Str(<<"this_month">>) -> date.y = today.y /\ date.m = today.m
    [] period = Str(<<"last_month">>) ->
         IF today.m = 1 THEN date.y = today.y - 1 /\ date.m = 12
         ELSE date.y = today.y /\ date.m = today.m - 1
    [] period = Str(<<"all_time">>) -> TRUE

\* the positions of the expenses of x that lie in the period of the last call
InPeriodOfCall(x, today) ==
  {i \in 1..Len(x) : InPeriod(x[i].date, exec.last.input.f.period, today)}

\* the number of cents a text d.dd (or -d.dd) denotes, -1 if it has another form
CentsOf(text) ==
  LET x == IF text # <<>> /\ Head(text) = "-" THEN Tail(text) ELSE text IN
  IF /\ Len(x) >= 4
     /\ x[Len(x) - 2] = "."
     /\ \A i \in (1..Len(x)) \ {Len(x) - 2} : x[i] \in Digit
  THEN DigitsValue(SelectSeq(x, LAMBDA c : c # "."))
  ELSE -1

(***************************************************************************)
(* C18 (SpecTool).  get_spending_summary returns as total the sum of the   *)
(* amounts of the expenses of the context whose date lies in the period    *)
(* (today: that day; this_week: the week from Monday to Sunday that        *)
(* contains today; this_month: the calendar month of today; last_month:    *)
(* the calendar month before it; all_time: every date) and whose           *)
(* categoryId is the input's when it gives one, written with two decimals, *)
(* and as transactionCount the number of these expenses.                   *)
(***************************************************************************)
C18_SpendingSummaryTotal ==
  (Called("get_spending_summary") /\ exec.last.input.f.period \in Periods) =>
    LET x == exec.snapshot.expenses
        f == exec.last.input.f
        counted == {i \in InPeriodOfCall(x, exec.snapshot.today) :
                      "categoryId" \in DOMAIN f => x[i].categoryId = f.categoryId}
        result == exec.last.out.result
    IN /\ ~exec.last.out.isError
       /\ CentsOf(result.total.s) = SumOver([i \in counted |-> x[i].amount.n], counted)
       /\ result.transactionCount = Num(Cardinality(counted))

\* on Sunday 2024-03-03 the expense of Monday 2024-02-26 is of this week,
\* that of 2023-12-31 is not
C18_Witness ==
  /\ Called("get_spending_summary")
  /\ exec.last.input.f = [period |-> Str(<<"this_week">>)]
  /\ exec.snapshot.today = Day(2024, 3, 3)
  /\ Len(exec.snapshot.expenses) = 2
  /\ exec.snapshot.expenses[1].date = Day(2024, 2, 26)
  /\ exec.snapshot.expenses[2].date = Day(2023, 12, 31)
  /\ exec.last.out.result.total = Str(<<"4", "0", ".", "0", "0">>)
  /\ exec.last.out.result.transactionCount = Num(1)

C20_CategoryBreakdown ==
  (Called("get_category_breakdown") /\ exec.last.input.f.period \in Periods) =>
    LET x == exec.last.before.expenses
        inPeriod == InPeriodOfCall(x, exec.last.before.today)
        ids == {x[i].categoryId : i \in inPeriod}
        of(c) == {i \in inPeriod : x[i].categoryId = c}
        totalOf(c) == SumOver([i \in of(c) |-> x[i].amount.n], of(c))
        firstOf(c) == CHOOSE i \in of(c) : \A j \in of(c) : i <= j
        total == SumOver([i \in inPeriod |-> x[i].amount.n], inPeriod)
        place(c) == 1 + Cardinality({b \in ids : totalOf(b) > totalOf(c)})
                      + Cardinality({b \in ids : /\ totalOf(b) = totalOf(c)
                                                 /\ firstOf(b) < firstOf(c)})
        result == exec.last.out.result
    IN /\ ~exec.last.out.isError
       /\ CentsOf(result.total.s) = total
       /\ Len(result.categories) = Cardinality(ids)
       /\ \A c \in ids :
            LET row == result.categories[place(c)] IN
            /\ row.name = x[firstOf(c)].categoryName
            /\ CentsOf(row.total.s) = totalOf(c)
            /\ row.count = Num(Cardinality(of(c)))
            /\ IF total = 0 THEN row.percentage = Num(0)
               ELSE /\ 2 * total * row.percentage.n - total <= 200 * totalOf(c)
                    /\ 200 * totalOf(c) < 2 * total * row.percentage.n + total

\* Food 40, Food 10, Transport 50: Food 50.00/2/50, then Transport 50.00/1/50, total 100.00
C20_Witness ==
  /\ Called("get_category_breakdown")
  /\ exec.last.before.expenses = FoodFoodTransport
  /\ exec.last.input.f = [period |-> Str(<<"all_time">>)]
  /\ exec.last.out.result.total = Str(<<"1", "0", "0", ".", "0", "0">>)
  /\ exec.last.out.result.categories =
       <<[name |-> Food, total |-> Str(<<"5", "0", ".", "0", "0">>),
          count |-> Num(2), percentage |-> Num(50)],
         [name |-> Transport, total |-> Str(<<"5", "0", ".", "0", "0">>),
          count |-> Num(1), percentage |-> Num(50)]>>

(***************************************************************************)
(* C22 (SpecBudget).  For every budget summary the chat context holds,     *)
(* built from a spending spent and a budget of amount amount:              *)
(* percentage = min(spent / amount, 1) * 100 when amount > 0; percentage   *)
(* is 0 and the status safe when amount <= 0; the status is danger when    *)
(* percentage >= 90, warning when 75 <= percentage < 90, safe otherwise.   *)
(***************************************************************************)
C22_BudgetStatus ==
  \A i \in 1..Len(budgetStore.summary) :
    LET b == budgetStore.summary[i]
        spent == budgetStore.spents[i]
        amount == budgetStore.budgets[i].amount.n
        p == b.percentage
    IN /\ b.spent = Num(spent) /\ b.amount = Num(amount)
       /\ p.den > 0
       /\ amount > 0 => p.num * amount = 100 * Min(spent, amount) * p.den
       /\ amount <= 0 => p.num = 0 /\ b.status = Str(<<"safe">>)
       /\ b.status = IF p.num >= 90 * p.den THEN Str(<<"danger">>)
                     ELSE IF p.num >= 75 * p.den THEN Str(<<"warning">>)
                     ELSE Str(<<"safe">>)

\* 250.00 spent of 100.00 is 100 % and danger; 75.00 spent of 200.00 is 37.5 % and safe
C22_Witness ==
  /\ Len(budgetStore.summary) = 2
  /\ budgetStore.spents = <<25000, 7500>>
  /\ budgetStore.summary[1].amount = Num(10000)
  /\ budgetStore.summary[1].percentage = [t |-> "number", num |-> 100, den |-> 1]
  /\ budgetStore.summary[1].status = Str(<<"danger">>)
  /\ budgetStore.summary[2].amount = Num(20000)
  /\ budgetStore.summary[2].percentage = [t |-> "number", num |-> 75, den |-> 2]
  /\ budgetStore.summary[2].status = Str(<<"safe">>)

(***************************************************************************)
(* C30 (SpecBudget).  The budget store never holds two budgets of the same *)
(* categoryId, null included.  setBudget on a categoryId that has a budget *)
(* changes the amount and the period of that budget and nothing else: not  *)
(* its id, not its position, not another budget; on a categoryId without   *)
(* one it appends a budget.  removeBudget(categoryId) leaves the budgets   *)
(* of the other categoryIds, unchanged and in their order, and none of     *)
(* that categoryId.                                                        *)
(***************************************************************************)
C30_OneBudgetPerCategory ==
  LET budgets == budgetStore.budgets
      last == budgetStore.last
      before == last.before
      at == {i \in 1..Len(before) : before[i].categoryId = last.categoryId}
  IN /\ \A i, j \in 1..Len(budgets) :
          budgets[i].categoryId = budgets[j].categoryId => i = j
     /\ (last.op = "setBudget" /\ at # {}) =>
          /\ Len(budgets) = Len(before)
          /\ \A i \in 1..Len(before) :
               IF i \in at
               THEN budgets[i] = [id |-> before[i].id, categoryId |-> last.categoryId,
                                  amount |-> last.amount, period |-> last.period]
               ELSE budgets[i] = before[i]
     /\ (last.op = "setBudget" /\ at = {}) =>
          /\ Len(budgets) = Len(before) + 1
          /\ SubSeq(budgets, 1, Len(before)) = before
          /\ budgets[Len(budgets)].categoryId = last.categoryId
          /\ budgets[Len(budgets)].amount = last.amount
          /\ budgets[Len(budgets)].period = last.period
     /\ last.op = "removeBudget" =>
          /\ \A i \in 1..Len(budgets) : budgets[i].categoryId # last.categoryId
          /\ Len(budgets) = Len(before) - Cardinality(at)
          /\ \A i \in 1..Len(before) : i \notin at =>
               budgets[i - Cardinality({j \in at : j < i})] = before[i]

\* the total budget, first of two, was given a new amount and a new period
C30_Witness ==
  /\ budgetStore.last.op = "setBudget"
  /\ budgetStore.last.categoryId = Null
  /\ Len(budgetStore.last.before) = 2
  /\ budgetStore.last.before[1] =
       [id |-> 1, categoryId |-> Null, amount |-> Num(10000), period |-> Str(<<"monthly">>)]
  /\ budgetStore.budgets[1] =
       [id |-> 1, categoryId |-> Null, amount |-> Num(20000), period |-> Str(<<"weekly">>)]

\* the budget of category 1, second of two, was removed
C30_WitnessRemove ==
  /\ budgetStore.last.op = "removeBudget"
  /\ budgetStore.last.categoryId = Str(<<"1">>)
  /\ Len(budgetStore.last.before) = 2
  /\ budgetStore.last.before[2].categoryId = Str(<<"1">>)
  /\ Len(budgetStore.budgets) = 1

(***************************************************************************)
(* C21 (SpecTool).  get_budget_status answers for the first budget of the  *)
(* context whose categoryId is the input's, or null (the total budget)     *)
(* when the input gives none.  Without such a budget the answer is not an  *)
(* error: hasBudget is false and the message names the category, "Total"   *)
(* for the total budget.  With one, hasBudget is true, remaining is amount *)
(* minus spent with two decimals, and daysRemaining (the days left in the  *)
(* clock's month) is there for a monthly budget and for no other.          *)
(***************************************************************************)
C21_BudgetStatusTool ==
  (Called("get_budget_status") /\ exec.last.input.kind = "object") =>
    LET context == exec.last.before
        given == ArgOr("categoryId", Str(<<>>))
        key == IF given = Str(<<>>) THEN Null ELSE given
        hits == {i \in 1..Len(context.budgets) : context.budgets[i].categoryId = key}
        named == {i \in 1..Len(context.categories) : context.categories[i].id = key}
        result == exec.last.out.result
        sent == JSONstringify(result)
    IN /\ ~exec.last.out.isError
       /\ hits = {} =>
            /\ result.hasBudget = FALSE
            /\ key = Null => result.message = <<"Aucun budget configure pour ", "Total">>
            /\ \A i \in named :
                 result.message = <<"Aucun budget configure pour ">> \o context.categories[i].name.s
       /\ hits # {} =>
            LET b == context.budgets[CHOOSE i \in hits : \A j \in hits : i <= j]
                left == b.amount.n - b.spent.n
            IN /\ result.hasBudget = TRUE
               /\ result.budgetAmount = b.amount
               /\ CentsOf(result.spent.s) = b.spent.n
               /\ IF left < 0
                  THEN Head(result.remaining.s) = "-" /\ CentsOf(result.remaining.s) = 0 - left
                  ELSE Head(result.remaining.s) # "-" /\ CentsOf(result.remaining.s) = left
               /\ IF b.period = Str(<<"monthly">>)
                  THEN /\ "daysRemaining" \in DOMAIN sent
                       /\ sent.daysRemaining =
                            Num(DaysInMonth(exec.clock.y, exec.clock.m) - exec.clock.d)
                  ELSE "daysRemaining" \notin DOMAIN sent

\* on 2024-02-10 the total budget of 500.00 with 125.50 spent has 374.50 and 19 days left
C21_Witness ==
  /\ Called("get_budget_status")
  /\ exec.last.input.f = [categoryId |-> Undefined]
  /\ exec.clock = Day(2024, 2, 10)
  /\ exec.last.before.budgets = Budgets
  /\ exec.last.out.result.hasBudget = TRUE
  /\ exec.last.out.result.remaining = Str(<<"3", "7", "4", ".", "5", "0">>)
  /\ exec.last.out.result.daysRemaining = Num(19)

\* the overspent weekly budget of category 2: -20.00 left, no daysRemaining
C21_WitnessWeekly ==
  /\ Called("get_budget_status")
  /\ exec.last.input.f = [categoryId |-> Str(<<"2">>)]
  /\ exec.last.out.result.remaining = Str(<<"-", "2", "0", ".", "0", "0">>)
  /\ "daysRemaining" \notin DOMAIN JSONstringify(exec.last.out.result)

\* no budget at all: the total budget is asked for and named
C21_WitnessNoBudget ==
  /\ Called("get_budget_status")
  /\ exec.last.input.f = [categoryId |-> Undefined]
  /\ exec.last.before.budgets = <<>>
  /\ exec.last.out.result.hasBudget = FALSE

\* the assistant messages of ms that carry tool calls: one per tool round
ToolRounds(ms) ==
  {i \in 1..Len(ms) : ms[i].role = "assistant" /\ "tool_calls" \in DOMAIN ms[i]}

(***************************************************************************)
(* C23 (Spec).  Once the handler has worked through a tool round, the      *)
(* message sequence holds, right after the assistant's tool-call message,  *)
(* one tool-result message for every tool call of that message, keyed to   *)
(* the call's id and in the order of the calls, and then no further        *)
(* tool-result message; so a sequence sent to the endpoint has a result    *)
(* for each tool call in it.                                               *)
(* The code appends no result for a tool call whose type is not function   *)
(* and none for the call at which an exception leaves the loop.            *)
(***************************************************************************)
C23_EveryToolCallHasItsResult ==
  \A r \in Slots :
    LET ms == post[r].messages IN
    post[r].pc \in {"create", "done"} =>
      \A i \in ToolRounds(ms) :
        LET n == Len(ms[i].tool_calls) IN
        /\ i + n <= Len(ms)
        /\ \A k \in 1..n :
             /\ ms[i + k].role = "tool"
             /\ ms[i + k].tool_call_id = ms[i].tool_calls[k].id
        /\ i + n < Len(ms) => ms[i + n + 1].role # "tool"

\* a sequence with a tool call of type custom and no result for it is sent
C23_SentWithoutResult ==
  /\ post[1].pc = "create"
  /\ post[1].calls = 2
  /\ Len(post[1].messages) = 4
  /\ post[1].messages[3].role = "assistant"
  /\ Len(post[1].messages[3].tool_calls) = 2
  /\ post[1].messages[3].tool_calls[2].type = "custom"
  /\ post[1].messages[4].role = "tool"
  /\ post[1].messages[4].tool_call_id = post[1].messages[3].tool_calls[1].id

(***************************************************************************)
(* C27 (Spec).  A request works through at most 5 tool rounds and issues   *)
(* at most 6 completion calls; the tool calls of the answer to the 6th     *)
(* call are not executed; and every tool call that was executed, so every  *)
(* tool-result message of the sequence, was sent to the endpoint with a    *)
(* later completion call.                                                  *)
(* When a tool call throws, the results of the calls executed before it in *)
(* the same round are never sent: the request ends with status 500.        *)
(***************************************************************************)
C27_ExecutedCallsAreSentBack ==
  \A r \in Slots :
    LET p == post[r]
        ms == p.messages
    IN /\ p.iterations <= maxIterations
       /\ Cardinality(ToolRounds(ms)) <= maxIterations
       /\ p.calls <= maxIterations + 1
       /\ (p.pc = "done" /\ p.status = 200 /\ p.calls = maxIterations + 1
             /\ p.response.has_tool_calls) =>
            \A k \in 1..Len(p.response.tool_calls) :
              ResultsOf(ms, p.response.tool_calls[k]) = {}
       /\ p.pc \in {"create", "done"} =>
            \A i \in ToolMessages(ms) :
              p.calls > Cardinality({j \in ToolRounds(ms) : j < i})

(***************************************************************************)
(* C24 (SpecHistory).  The message sequence of the first completion call   *)
(* is one system message, then the last 10 entries of the history that are *)
(* not loading placeholders, in their order and as role and content only,  *)
(* then the user message of the request; it has at most 12 messages, and   *)
(* no system message but the first.                                        *)
(***************************************************************************)
C24_FirstMessageSequence ==
  \A r \in Slots :
    (post[r].pc = "create" /\ post[r].calls = 1) =>
      LET ms == post[r].messages
          history == post[r].body.history
          shown == {i \in 1..Len(history) : ~history[i].isLoading}
          kept == {i \in shown : Cardinality({j \in shown : j > i}) < 10}
          place(i) == 1 + Cardinality({j \in kept : j <= i})
      IN /\ Len(ms) = Cardinality(kept) + 2
         /\ Len(ms) <= 12
         /\ ms[1] = [role |-> "system", prompt |-> post[r].body.context]
         /\ \A i \in 2..Len(ms) : ms[i].role # "system"
         /\ \A i \in kept :
              ms[place(i)] = [role |-> history[i].role, content |-> history[i].content]
         /\ ms[Len(ms)] = [role |-> "user", content |-> post[r].body.message]

\* 13 entries, the 3rd and the 6th loading: the entries 1 and 3 and 6 are left out
C24_Witness ==
  /\ post[1].pc = "create" /\ post[1].calls = 1
  /\ Len(post[1].body.history) = 13
  /\ post[1].body.history[3].isLoading /\ post[1].body.history[6].isLoading
  /\ Len(post[1].messages) = 12
  /\ post[1].messages[2] = [role |-> "assistant", content |-> Text(2)]
  /\ post[1].messages[3] = [role |-> "assistant", content |-> Text(4)]
  /\ post[1].messages[11] = [role |-> "user", content |-> Text(13)]

(***************************************************************************)
(* C25 (SpecTool).  The two tool declarations list the same six tools, in  *)
(* the same order, with the same properties, required fields and period    *)
(* enumerations.  executeToolCall passes a call of one of these six names  *)
(* to the handler of that name; for every other name it does not throw and *)
(* returns isError true with an error that names the tool, so the loop     *)
(* goes on with the next call.                                             *)
(***************************************************************************)
C25_ToolSetClosed ==
  LET names == {chatTools[i].name : i \in 1..Len(chatTools)}
      last == exec.last
      handled ==
        CASE last.name = "get_spending_summary" ->
               last.out = executeGetSpendingSummary(last.input, last.before)
          [] last.name = "get_budget_status" ->
               last.out = executeGetBudgetStatus(last.input, last.before, exec.clock)
          [] last.name = "search_expenses" ->
               last.out = executeSearchExpenses(last.input, last.before)
          [] last.name = "get_top_expenses" ->
               last.out = executeGetTopExpenses(last.input, last.before)
          [] last.name = "get_category_breakdown" ->
               last.out = executeGetCategoryBreakdown(last.input, last.before)
          [] last.name = "create_expense" ->
               last.out = executeCreateExpense(last.input, last.before)
          [] OTHER -> FALSE
  IN /\ Len(chatTools) = 6 /\ Cardinality(names) = 6
     /\ names = {"get_spending_summary", "get_budget_status", "search_expenses",
                 "get_top_expenses", "get_category_breakdown", "create_expense"}
     /\ Len(anthropicChatTools) = Len(chatTools)
     /\ \A i \in 1..Len(chatTools) :
          /\ anthropicChatTools[i].name = chatTools[i].name
          /\ anthropicChatTools[i].properties = chatTools[i].properties
          /\ anthropicChatTools[i].required = chatTools[i].required
          /\ anthropicChatTools[i].enum = chatTools[i].enum
     /\ last.name # "" =>
          IF last.name \in names
          THEN handled
          ELSE /\ ~last.out.thrown
               /\ last.out.isError
               /\ last.out.result = [error |-> <<"Outil inconnu: ", last.name>>]
               /\ ENABLED NextTool

\* delete_all_expenses is not a tool: the call is answered with an error
C25_Witness ==
  /\ exec.last.name = "delete_all_expenses"
  /\ exec.last.out.isError
  /\ exec.last.out.result = [error |-> <<"Outil inconnu: ", "delete_all_expenses">>]
  /\ exec.last.before.expenses = FoodFoodTransport

(***************************************************************************)
(* C26 (SpecKeys).  The entry of a key of the rate limiter changes only    *)
(* when a request of that key is let in by checkRateLimit: the key of a    *)
(* request is its x-session-id header, and "anonymous" for every request   *)
(* without one (or with an empty one); an attempt changes the entry of no  *)
(* other key, and an attempt that is refused changes no entry.             *)
(***************************************************************************)
C26_KeyedBySession ==
  [][/\ \A r \in Slots :
          (post[r].pc = "arrived" /\ post'[r].pc # "arrived") =>
            LET key == IF post[r].header = NoHeader \/ post[r].header = ""
                       THEN "anonymous" ELSE post[r].header
            IN /\ post'[r].sessionId = key
               /\ lastCall'.session = key
               /\ \A s \in Sessions \ {key} : rateLimiter'[s] = rateLimiter[s]
               /\ ~post'[r].admitted => rateLimiter' = rateLimiter
               /\ post'[r].admitted => rateLimiter'[key] # rateLimiter[key]
     /\ rateLimiter' # rateLimiter =>
          \E r \in Slots : post[r].pc = "arrived" /\ post'[r].pc # "arrived"]_vars

\* a request without header was refused while the other key has admissions left
C26_Witness ==
  /\ post[1].pc = "done" /\ post[1].status = 429 /\ ~post[1].admitted
  /\ post[1].header = NoHeader /\ post[1].sessionId = "anonymous"
  /\ rateLimiter["anonymous"].count = RATE_LIMIT
  /\ rateLimiter["user-session"].present
  /\ rateLimiter["user-session"].count = 3

(***************************************************************************)
(* C28 (SpecAdmit).  checkRateLimit is called before the body is read:     *)
(* within one window the count of a session is the number of its requests  *)
(* that were not refused by the limiter, whether they were answered with   *)
(* 200, rejected with 400 or failed with 500; a request is refused only    *)
(* when that count is 10; so after 10 requests rejected with 400 the next  *)
(* request of the session is refused with 429, valid or not.               *)
(***************************************************************************)
C28_AdmissionBeforeValidation ==
  LET s == "user-session"
      p == post[1]
      answered == served[s].answered
      past == p.pc \notin {"idle", "arrived"}
      letIn == answered[200] + answered[400] + answered[429] + answered[500]
                 + (IF past /\ p.admitted THEN 1 ELSE 0)
  IN /\ rateLimiter[s].count = letIn
     /\ letIn <= RATE_LIMIT
     /\ (served[s].refused > 0 \/ (past /\ ~p.admitted)) => letIn = RATE_LIMIT
     /\ (p.pc = "done" /\ p.status \in {400, 500}) => p.admitted
     /\ (past /\ ~p.admitted) => p.pc = "done" /\ p.status = 429 /\ p.calls = 0
     /\ (answered[400] = RATE_LIMIT /\ past) => ~p.admitted

\* ten requests were rejected with 400; the next one, with a valid message, gets 429
C28_Witness ==
  /\ served["user-session"].answered[400] = RATE_LIMIT
  /\ post[1].pc = "done" /\ post[1].status = 429 /\ ~post[1].admitted
  /\ ~InvalidMessage(post[1].body.message)
  /\ rateLimiter["user-session"].count = RATE_LIMIT

(***************************************************************************)
(* C29 (SpecChat).  The chat store never holds more than 50 messages,      *)
(* whatever addMessage, updateMessage, removeMessage and clearHistory are  *)
(* called; an addMessage on a list of 50 leaves the 49 newest of them, in  *)
(* their order, followed by the new message, and an addMessage on a        *)
(* shorter list appends the new message.                                   *)
(***************************************************************************)
C29_AtMostFiftyMessages ==
  /\ [](Len(chat.messages) <= 50)
  /\ [][chat'.ids = chat.ids + 1 =>
          LET old == chat.messages
              new == chat'.messages
          IN /\ new[Len(new)].id = chat'.ids
             /\ IF Len(old) = 50
                THEN /\ Len(new) = 50
                     /\ \A i \in 1..49 : new[i] = old[i + 1]
                ELSE /\ Len(new) = Len(old) + 1
                     /\ \A i \in 1..Len(old) : new[i] = old[i]]_vars

\* a 51st message was added to 50: the first is gone, the 2nd is now the first
C29_Witness ==
  /\ Len(chat.messages) = 50
  /\ chat.ids = 51
  /\ chat.messages[1].id = 2
  /\ chat.messages[49].id = 50
  /\ chat.messages[50].id = 51

=============================================================================
